---- MODULE Spec2Model ----
(***************************************************************************)
(* State-machine model of the encrypted messenger: the relay (ServerSide/  *)
(* server.py over ServerSide/database.py) and the desktop clients          *)
(* (Client/main_messenger.py over Client/data_manager.py,                  *)
(* Client/encryption.py and Client/server_api.py).                         *)
(*                                                                         *)
(* Cryptography is symbolic: a ciphertext is a record naming the key that  *)
(* opens it, and decryption under any other key fails.  Every handler is   *)
(* one atomic action; the clock readings a handler takes are inputs of     *)
(* the action, each at or after the previous one.                          *)
(***************************************************************************)
EXTENDS Integers, Sequences, FiniteSets, TLC

\* ------------------------------------------------------------------ bounds
MaxTime == 3        \* the clock runs over 1..MaxTime
MaxMsgs == 2        \* rows of the relay's messages table
MaxHist == 2        \* entries of one local conversation
MaxInstalls == 1    \* re-installs (key regenerations) per client
MaxTokens == 3      \* bearer tokens the relay issues

\* ------------------------------------------------------- program constants
TokenTTL == 604800  \* create_auth_token's default expires_in

\* --------------------------------------------------------------- universes
Clients == {1, 2}                 \* client installs; client c owns one account
Owners == {1}                     \* the installs driven through the desktop client
Peers == Clients \ Owners         \* the accounts driven through ServerAPI alone
Texts == {"a"}                    \* message plaintexts typed by users
GroupNames == {"g"}               \* names given to groups
MsgKeys == {"k"}                  \* one-time Fernet keys of encrypt_message

NoToken == 0                      \* ServerAPI.auth_token = None
NoChat == [kind |-> "none"]       \* MessengerWindow.current_chat = None
NoFile == [exists |-> FALSE]      \* a file that is not on disk
NoCall == [pc |-> "none"]          \* a request slot of the relay that holds no request
MaxCalls == 3                     \* requests the relay is sent in one run
Calls == 1..MaxCalls
LoopIdle == [running |-> 0, calls |-> [r \in Calls |-> NoCall]]

\* The username client c types when registering and logging in.
UserNameOf(c) == IF c = 1 THEN "1" ELSE "2"
UserNames == {UserNameOf(c) : c \in Clients}

\* int(message.recipient_id) of server.send_message; 0 stands for ValueError.
ParseInt(s) == CASE s = "1" -> 1 [] s = "2" -> 2 [] OTHER -> 0

VARIABLES
    now,                 \* time.time() as an integer, shared by all hosts
    \* ---- relay (ServerSide/database.py tables)
    users,               \* users table: Seq of [username, public_key]; id = index
    auth_tokens,         \* auth_tokens table: set of [user_id, token, created_at, expires_at]
    tokens_issued,       \* number of tokens generate_token has produced
    friends_tbl,         \* friends table: Seq of [user_id, friend_id, status]; id = index
    groups_tbl,          \* groups table: Seq of [name, created_by]; id = index
    group_members,       \* group_members table: set of [group_id, user_id]
    messages,            \* messages table: Seq of rows; id = index
    user_backups,        \* user_backups table: Seq of [user_id, backup_data, timestamp]
    event_loop,          \* the relay's asyncio loop: the requests in flight and the one running
    \* ---- client c, in memory
    symmetric_key,       \* EncryptionManager.symmetric_key
    private_key,         \* EncryptionManager.private_key (public_key is its pair)
    friend_public_keys,  \* EncryptionManager.friend_public_keys with Keys/friends/*.pem
    auth_token,          \* ServerAPI.auth_token with UserData/auth_token.txt
    friends,             \* DataManager.friends
    groups,              \* DataManager.groups
    message_history,     \* DataManager.message_history
    last_sync_time,      \* DataManager.last_sync_time
    current_chat,        \* MessengerWindow.current_chat
    \* ---- client c, on disk
    relations_file,      \* UserData/relations.json
    history_files,       \* MessageHistory/<key>.json
    last_sync_file,      \* UserData/last_sync.txt
    installs,            \* how many times client c generated key material
    key_files,           \* UserData/Keys: symmetric.key, private.pem, public.pem
    \* ---- observation
    last,                \* what the last handler did and returned
    pushed               \* vault contents held by c when the relay last stored c's snapshot

relay_vars == <<users, auth_tokens, tokens_issued, friends_tbl, groups_tbl,
                group_members, messages, user_backups, event_loop>>
key_vars == <<symmetric_key, private_key, friend_public_keys, installs, key_files>>
vault_vars == <<friends, groups, message_history, relations_file, history_files>>
sync_vars == <<last_sync_time, last_sync_file>>
vars == <<now, relay_vars, key_vars, vault_vars, sync_vars, auth_token,
          current_chat, last, pushed>>

\* ----------------------------------------------------------------- helpers
Range(s) == {s[i] : i \in DOMAIN s}

\* dict[k] = v
Put(d, k, v) == [x \in (DOMAIN d) \cup {k} |-> IF x = k THEN v ELSE d[x]]

EmptyDict == [x \in {} |-> <<>>]

\* Conversation keys of message_history: the peer's username, or
\* "group_" + name for a group.
DmKey(name) == <<"dm", name>>
GroupKey(name) == <<"group", name>>

\* ------------------------------------------------ Client/encryption.py
\* Key material generated by client c at its n-th install.
KeyOf(c, n) == [owner |-> c, gen |-> n]

\* A key export that hands out the private key itself.
PubLeaking(sk) == sk

\* The public half of a private key (get_public_key_pem).
Pub(sk) == [pub_of |-> sk]

\* A file of UserData/Keys holding a key, and one whose content cannot be
\* read as a key.
KeyFile(k) == [exists |-> TRUE, readable |-> TRUE, value |-> k]
BadFile == [exists |-> TRUE, readable |-> FALSE, value |-> [garbage |-> TRUE]]
Readable(f) == f.exists /\ f.readable

\* The Keys directory load_or_generate_keys leaves after generating: the
\* symmetric key, the private key and its public half.
KeysOnDisk(k) ==
    [symmetric |-> KeyFile(k), private |-> KeyFile(k), public |-> KeyFile(Pub(k))]

\* load_or_generate_keys on the Keys directory dir, k being the key material
\* a generation would produce: the keys it loads and the directory it
\* leaves.  symmetric.key is read as raw bytes, whatever they are, and a
\* missing one makes a new symmetric key.  Only FileNotFoundError is caught
\* around the two PEM files: a missing private.pem or public.pem makes a new
\* key pair that is written over both files, and a PEM file that does not
\* parse raises.
load_or_generate_keys(dir, k) ==
    LET sym_file == IF dir.symmetric.exists THEN dir.symmetric ELSE KeyFile(k)
        after_sym == [dir EXCEPT !.symmetric = sym_file]
        pair_raises == \/ dir.private.exists /\ ~dir.private.readable
                       \/ Readable(dir.private) /\ dir.public.exists
                             /\ ~dir.public.readable
        pair_missing == ~dir.private.exists \/ ~dir.public.exists
    IN  IF pair_raises
        THEN [raised |-> TRUE, generated |-> ~dir.symmetric.exists, dir |-> after_sym]
        ELSE IF pair_missing
             THEN [raised |-> FALSE, generated |-> TRUE,
                   symmetric_key |-> sym_file.value, private_key |-> k,
                   dir |-> [after_sym EXCEPT !.private = KeyFile(k),
                                             !.public = KeyFile(Pub(k))]]
        ELSE [raised |-> FALSE, generated |-> ~dir.symmetric.exists,
              symmetric_key |-> sym_file.value, private_key |-> dir.private.value,
              dir |-> after_sym]

\* An encryption that sends the one-time key along without wrapping it.
encrypt_message_unwrapped(message, pk, mk) ==
    [key |-> [wrapped_for |-> [nobody |-> TRUE], message_key |-> mk],
     message |-> [under |-> mk, plaintext |-> message]]

\* encrypt_message past the key lookup: a fresh Fernet key mk encrypts the
\* message and is wrapped under the recipient's public key.
encrypt_message(message, pk, mk) ==
    [key |-> [wrapped_for |-> pk, message_key |-> mk],
     message |-> [under |-> mk, plaintext |-> message]]

\* A public key load_pem_public_key accepts but that has no RSA encrypt
\* (the PEM of a key of another kind): encrypting for it raises.
NotRSA == [not_rsa |-> TRUE]

\* An encryption that wraps every one-time key under one and the same
\* stored public key, whoever the recipient is.
encrypt_message_to_one(keys, message, recipient_username, mk) ==
    IF recipient_username \notin DOMAIN keys THEN [ok |-> FALSE]
    ELSE IF keys[recipient_username] = NotRSA THEN [ok |-> FALSE]
    ELSE [ok |-> TRUE,
          value |-> encrypt_message(message,
                                    keys[CHOOSE n \in DOMAIN keys : keys[n] # NotRSA], mk)]

\* EncryptionManager.encrypt_message with its key lookup, over the key
\* store keys (friend_public_keys backed by Keys/friends/*.pem): None when
\* the recipient has no key or the encryption raises, else the envelope.
encrypt_message_to(keys, message, recipient_username, mk) ==
    IF recipient_username \notin DOMAIN keys THEN [ok |-> FALSE]
    ELSE IF keys[recipient_username] = NotRSA THEN [ok |-> FALSE]
    ELSE [ok |-> TRUE, value |-> encrypt_message(message, keys[recipient_username], mk)]

\* encrypt_group_message: one envelope per listed member, in list order,
\* collected in a dict; None as soon as one member's encryption fails.
\* mks gives the Fernet key generated for each member.
RECURSIVE EncryptEach(_, _, _, _, _)
EncryptEach(keys, message, member_list, mks, encrypted_messages) ==
    IF member_list = <<>> THEN [ok |-> TRUE, value |-> encrypted_messages]
    ELSE LET member == Head(member_list)
             encrypted_message == encrypt_message_to(keys, message, member, mks[member])
         IN  IF encrypted_message.ok
             THEN EncryptEach(keys, message, Tail(member_list), mks,
                              Put(encrypted_messages, member, encrypted_message.value))
             ELSE [ok |-> FALSE]

\* A group encryption that skips the members it cannot encrypt for and
\* returns the envelopes of the others.
encrypt_group_message_partial(keys, message, member_list, mks) ==
    [ok |-> TRUE,
     value |-> [member \in {m \in Range(member_list) :
                               encrypt_message_to(keys, message, m, mks[m]).ok} |->
                   encrypt_message_to(keys, message, member, mks[member]).value]]

encrypt_group_message(keys, message, member_list, mks) ==
    EncryptEach(keys, message, member_list, mks, EmptyDict)

\* A decryption that hands out the content whichever private key is used.
decrypt_message_unchecked(encrypted_data, sk) ==
    [ok |-> TRUE, value |-> encrypted_data.message.plaintext]

\* decrypt_message: unwrap the one-time key with the private key, then
\* decrypt the content; any failure yields None.
decrypt_message(encrypted_data, sk) ==
    IF /\ encrypted_data.key.wrapped_for = Pub(sk)
       /\ encrypted_data.message.under = encrypted_data.key.message_key
    THEN [ok |-> TRUE, value |-> encrypted_data.message.plaintext]
    ELSE [ok |-> FALSE]

\* encrypt_data_for_storage: json.dumps, Fernet under the local symmetric
\* key, base64.
encrypt_data_for_storage(data, key) == [sealed_with |-> key, payload |-> data]

\* decrypt_data_from_storage: None unless the blob was sealed with this key.
decrypt_data_from_storage(encrypted_data, key) ==
    IF encrypted_data.sealed_with = key
    THEN [ok |-> TRUE, value |-> encrypted_data.payload]
    ELSE [ok |-> FALSE]

\* --------------------------------------------- ServerSide/database.py
\* get_user_by_username: the user's id, 0 when there is none.
get_user_by_username(username) ==
    IF \E i \in DOMAIN users : users[i].username = username
    THEN CHOOSE i \in DOMAIN users : users[i].username = username
    ELSE 0

\* get_user_by_id: whether the row exists.
get_user_by_id(user_id) == user_id \in DOMAIN users

\* A lookup that finds the token's row and never compares expires_at.
validate_auth_token_unexpiring(token) ==
    IF \E r \in auth_tokens : r.token = token
    THEN (CHOOSE r \in auth_tokens : r.token = token).user_id
    ELSE 0

\* validate_auth_token: the user id of an unexpired token, else 0 (None).
validate_auth_token(token) ==
    IF \E r \in auth_tokens : r.token = token /\ r.expires_at > now
    THEN (CHOOSE r \in auth_tokens : r.token = token /\ r.expires_at > now).user_id
    ELSE 0

\* create_auth_token: the row inserted for a new token.
create_auth_token(user_id, token) ==
    auth_tokens \cup {[user_id |-> user_id, token |-> token,
                       created_at |-> now, expires_at |-> now + TokenTTL]}

\* A logout whose DELETE removes nothing.
delete_auth_token_keeping(token) == auth_tokens

\* delete_auth_token: DELETE the token's row.
delete_auth_token(token) == {r \in auth_tokens : r.token # token}

\* A create_group that inserts the group and no membership row.
create_group_row_alone(name, created_by) ==
    [group_id |-> Len(groups_tbl) + 1,
     groups_tbl |-> Append(groups_tbl, [name |-> name, created_by |-> created_by]),
     group_members |-> group_members]

\* Database.create_group: INSERT the group, then its creator as a member.
create_group_row(name, created_by) ==
    [group_id |-> Len(groups_tbl) + 1,
     groups_tbl |-> Append(groups_tbl, [name |-> name, created_by |-> created_by]),
     group_members |-> group_members \cup
         {[group_id |-> Len(groups_tbl) + 1, user_id |-> created_by]}]

\* Database.add_group_member on a membership table: UNIQUE(group_id,
\* user_id) turns a second insert into False and leaves the table alone.
add_group_member_row(tbl, group_id, user_id) ==
    IF [group_id |-> group_id, user_id |-> user_id] \in tbl
    THEN [success |-> FALSE, group_members |-> tbl]
    ELSE [success |-> TRUE,
          group_members |-> tbl \cup {[group_id |-> group_id, user_id |-> user_id]}]

\* Database.get_group_members: the ids of the group's members (JOIN users).
get_group_members_rows(group_id) ==
    {r.user_id : r \in {q \in group_members :
                           q.group_id = group_id /\ q.user_id \in DOMAIN users}}

\* save_message: INSERT with delivered = 0 and the relay's clock.
save_message_row(sender_id, recipient_id, encrypted_key, encrypted_content, is_group) ==
    Append(messages,
           [sender_id |-> sender_id, recipient_id |-> recipient_id,
            encrypted_key |-> encrypted_key, encrypted_content |-> encrypted_content,
            is_group |-> is_group, timestamp |-> now, delivered |-> FALSE])

\* A receive query that skips the rows already handed out.
DirectWhereUndelivered(m, user_id, since_timestamp) ==
    /\ m.recipient_id = user_id
    /\ m.timestamp > since_timestamp
    /\ ~m.is_group
    /\ ~m.delivered

\* The WHERE clause of get_messages; the JOIN on the sender never drops a
\* row, senders being registered users.
DirectWhere(m, user_id, since_timestamp) ==
    /\ m.recipient_id = user_id
    /\ m.timestamp > since_timestamp
    /\ ~m.is_group

DirectMatching(user_id, since_timestamp) ==
    {i \in DOMAIN messages : /\ messages[i].sender_id \in DOMAIN users
                             /\ DirectWhere(messages[i], user_id, since_timestamp)}

\* A group query without the JOIN on group_members.
GroupMatchingAnyGroup(user_id, since_timestamp) ==
    {i \in DOMAIN messages :
        /\ messages[i].sender_id \in DOMAIN users
        /\ messages[i].is_group
        /\ messages[i].timestamp > since_timestamp
        /\ messages[i].recipient_id \in DOMAIN groups_tbl}

\* The WHERE clause and JOINs of get_group_messages.
GroupMatching(user_id, since_timestamp) ==
    {i \in DOMAIN messages :
        /\ messages[i].sender_id \in DOMAIN users
        /\ messages[i].is_group
        /\ messages[i].timestamp > since_timestamp
        /\ messages[i].recipient_id \in DOMAIN groups_tbl
        /\ [group_id |-> messages[i].recipient_id, user_id |-> user_id] \in group_members}

\* ORDER BY m.timestamp ASC: every listing of the ids by ascending
\* timestamp; SQL leaves the order of rows with equal timestamps open.
OrderedByTimestamp(ids) ==
    {s \in [1..Cardinality(ids) -> ids] :
        /\ \A i, j \in DOMAIN s : i # j => s[i] # s[j]
        /\ \A i, j \in DOMAIN s : i < j => messages[s[i]].timestamp <= messages[s[j]].timestamp}

\* get_messages: the possible result lists (message ids in result order).
get_messages(user_id, since_timestamp) ==
    OrderedByTimestamp(DirectMatching(user_id, since_timestamp))

\* An UPDATE that rewrites the flag of every row: set on the returned
\* rows, cleared on the others.
MarkDeliveredOnly(ids) ==
    [i \in DOMAIN messages |-> [messages[i] EXCEPT !.delivered = (i \in ids)]]

\* get_messages' UPDATE: delivered = 1 on every returned row.
MarkDelivered(ids) ==
    [i \in DOMAIN messages |->
        IF i \in ids THEN [messages[i] EXCEPT !.delivered = TRUE] ELSE messages[i]]

\* get_group_messages: the possible result lists; nothing is marked.
get_group_messages(user_id, since_timestamp) ==
    OrderedByTimestamp(GroupMatching(user_id, since_timestamp))

\* The two statements of save_user_backup, one by one: the DELETE of the
\* user's rows, and the INSERT of the new row.
delete_user_backups(tbl, user_id) == SelectSeq(tbl, LAMBDA r : r.user_id # user_id)
insert_user_backup(tbl, user_id, backup_data, t) ==
    Append(tbl, [user_id |-> user_id, backup_data |-> backup_data, timestamp |-> t])

\* A save that inserts the new row and leaves the user's old rows in place.
save_user_backup_keeping(tbl, user_id, backup_data, t) ==
    Append(tbl, [user_id |-> user_id, backup_data |-> backup_data, timestamp |-> t])

\* save_user_backup: DELETE the user's rows, then INSERT the new one.
save_user_backup(tbl, user_id, backup_data, t) ==
    Append(SelectSeq(tbl, LAMBDA r : r.user_id # user_id),
           [user_id |-> user_id, backup_data |-> backup_data, timestamp |-> t])

\* get_user_backup: ORDER BY timestamp DESC LIMIT 1; the rows it may return.
get_user_backup(user_id) ==
    {r \in Range(user_backups) :
        /\ r.user_id = user_id
        /\ \A q \in Range(user_backups) : q.user_id = user_id => q.timestamp <= r.timestamp}

\* json.dumps / json.loads of the relay's backup handlers.
json_dumps(v) == [json |-> v]
json_loads(s) == s.json

\* -------------------------------------------- ServerSide/server.py handlers
\* Each handler is given as its response status and the table it rewrites.

\* POST messages/send
server_send_message(token, recipient_id, encrypted_key, encrypted_content, is_group) ==
    LET user_id == validate_auth_token(token)
        rid == ParseInt(recipient_id)
    IN  IF user_id = 0 THEN [status |-> 401, messages |-> messages]
        ELSE IF rid = 0 THEN [status |-> 400, messages |-> messages]
        ELSE IF ~get_user_by_id(rid) /\ ~is_group THEN [status |-> 404, messages |-> messages]
        ELSE [status |-> 200,
              messages |-> save_message_row(user_id, rid, encrypted_key,
                                            encrypted_content, is_group)]

\* POST users/backup, the relay reading its clock at t
server_backup_user_data(token, backup_data, t) ==
    LET user_id == validate_auth_token(token)
    IN  IF user_id = 0 THEN [status |-> 401, user_backups |-> user_backups]
        ELSE [status |-> 200,
              user_backups |-> save_user_backup(user_backups, user_id,
                                                json_dumps(backup_data), t)]

\* GET users/restore for an authenticated user: the responses it may give
server_restore_user_data(user_id) ==
    IF user_id = 0 THEN {[success |-> FALSE]}
    ELSE IF get_user_backup(user_id) = {} THEN {[success |-> FALSE]}
    ELSE {[success |-> TRUE, data |-> json_loads(r.backup_data)] :
             r \in get_user_backup(user_id)}

\* add_friend_request, for a caller and a username: the friends tables it
\* may leave (fetchone takes any one of the rows between the two users).
add_friend_request(user_id, friend_username) ==
    LET friend_id == get_user_by_username(friend_username)
        existing == {i \in DOMAIN friends_tbl :
                        \/ friends_tbl[i].user_id = user_id /\ friends_tbl[i].friend_id = friend_id
                        \/ friends_tbl[i].user_id = friend_id /\ friends_tbl[i].friend_id = user_id}
    IN  IF friend_id = 0 \/ user_id = friend_id THEN {friends_tbl}
        ELSE IF existing # {}
        THEN {IF friends_tbl[i].status = "rejected"
              THEN [friends_tbl EXCEPT ![i].status = "pending"]
              ELSE friends_tbl : i \in existing}
        ELSE {Append(friends_tbl, [user_id |-> user_id, friend_id |-> friend_id,
                                   status |-> "pending"])}

\* respond_to_friend_request: the outcomes it may have.  The row is looked
\* up by id and addressee alone, whatever its status; the UPDATE runs, and
\* on accept the reverse row is INSERTed.  UNIQUE(user_id, friend_id) makes
\* that INSERT raise when the reverse row exists: the call ends without a
\* commit, the UPDATE staying in the connection's open transaction (seen
\* by later calls) unless the process stops before the next commit.
respond_to_friend_request(request_id, user_id, accept) ==
    LET found == request_id \in DOMAIN friends_tbl
                    /\ friends_tbl[request_id].friend_id = user_id
        status == IF accept THEN "accepted" ELSE "rejected"
        updated == [friends_tbl EXCEPT ![request_id].status = status]
        reverse == [user_id |-> user_id, friend_id |-> friends_tbl[request_id].user_id,
                    status |-> "accepted"]
    IN  IF ~found THEN {[success |-> FALSE, raised |-> FALSE, friends_tbl |-> friends_tbl]}
        ELSE IF ~accept THEN {[success |-> TRUE, raised |-> FALSE, friends_tbl |-> updated]}
        ELSE IF \E i \in DOMAIN friends_tbl :
                    /\ friends_tbl[i].user_id = reverse.user_id
                    /\ friends_tbl[i].friend_id = reverse.friend_id
        THEN {[success |-> FALSE, raised |-> TRUE, friends_tbl |-> tbl] :
                 tbl \in {updated, friends_tbl}}
        ELSE {[success |-> TRUE, raised |-> FALSE, friends_tbl |-> Append(updated, reverse)]}

\* get_friend_requests: the ids of the pending rows addressed to the user.
get_friend_requests(user_id) ==
    {i \in DOMAIN friends_tbl : /\ friends_tbl[i].friend_id = user_id
                                /\ friends_tbl[i].status = "pending"
                                /\ friends_tbl[i].user_id \in DOMAIN users}

\* get_friends: the ids at the far end of the user's accepted rows.
get_friends(user_id) ==
    {friends_tbl[i].friend_id : i \in {j \in DOMAIN friends_tbl :
                                          /\ friends_tbl[j].user_id = user_id
                                          /\ friends_tbl[j].status = "accepted"
                                          /\ friends_tbl[j].friend_id \in DOMAIN users}}

\* get_current_user: the caller's id, 0 standing for the 401 it raises.  A
\* request without a bearer header presents NoToken, which has no row.
get_current_user(token) == validate_auth_token(token)

\* POST auth/register with the token generate_token draws
server_register(username, public_key, token) ==
    IF get_user_by_username(username) # 0
    THEN [status |-> 400, users |-> users, auth_tokens |-> auth_tokens]
    ELSE [status |-> 200,
          users |-> Append(users, [username |-> username, public_key |-> public_key]),
          auth_tokens |-> create_auth_token(Len(users) + 1, token)]

\* POST auth/login with the right password and the token generate_token draws
server_login(username, token) ==
    IF get_user_by_username(username) = 0
    THEN [status |-> 401, auth_tokens |-> auth_tokens]
    ELSE [status |-> 200,
          auth_tokens |-> create_auth_token(get_user_by_username(username), token)]

\* POST auth/logout
server_logout(token) ==
    IF get_current_user(token) = 0
    THEN [status |-> 401, auth_tokens |-> auth_tokens]
    ELSE [status |-> 200, auth_tokens |-> delete_auth_token(token)]

\* GET users/public-key
server_get_public_key(token, username) ==
    IF get_current_user(token) = 0 THEN [status |-> 401]
    ELSE IF get_user_by_username(username) = 0 THEN [status |-> 404]
    ELSE [status |-> 200,
          public_key |-> users[get_user_by_username(username)].public_key]

\* GET users/search: the ids whose username contains the query, the
\* caller's own left out.
server_search_users(token, query) ==
    IF get_current_user(token) = 0 THEN [status |-> 401, users |-> {}]
    ELSE [status |-> 200,
          users |-> {i \in DOMAIN users :
                        /\ users[i].username = query
                        /\ i # get_current_user(token)}]

\* POST friends/add: the responses it may give, each with the table it leaves
server_add_friend(token, username) ==
    LET user_id == get_current_user(token)
        friend_id == get_user_by_username(username)
    IN  IF user_id = 0 THEN {[status |-> 401, friends_tbl |-> friends_tbl]}
        ELSE IF friend_id = 0 \/ friend_id = user_id
        THEN {[status |-> 400, friends_tbl |-> friends_tbl]}
        ELSE {[status |-> IF tbl = friends_tbl THEN 400 ELSE 200, friends_tbl |-> tbl] :
                 tbl \in add_friend_request(user_id, username)}

\* GET friends/requests
server_get_friend_requests(token) ==
    IF get_current_user(token) = 0 THEN [status |-> 401, requests |-> {}]
    ELSE [status |-> 200, requests |-> get_friend_requests(get_current_user(token))]

\* POST friends/respond/{request_id}: the responses it may give; an
\* exception out of the handler is answered 500.
server_respond_to_friend_request(token, request_id, accept) ==
    LET user_id == get_current_user(token)
    IN  IF user_id = 0 THEN {[status |-> 401, friends_tbl |-> friends_tbl]}
        ELSE {[status |-> IF r.raised THEN 500 ELSE IF r.success THEN 200 ELSE 400,
               friends_tbl |-> r.friends_tbl] :
                 r \in respond_to_friend_request(request_id, user_id, accept)}

\* GET friends
server_get_friends(token) ==
    IF get_current_user(token) = 0 THEN [status |-> 401, friends |-> {}]
    ELSE [status |-> 200, friends |-> get_friends(get_current_user(token))]

\* GET messages/receive: the responses it may give (the result list and
\* the table after the delivered marks).
server_receive_messages(token, since) ==
    LET user_id == get_current_user(token)
    IN  IF user_id = 0 THEN {[status |-> 401, returned |-> <<>>, messages |-> messages]}
        ELSE {[status |-> 200, returned |-> ids, messages |-> MarkDelivered(Range(ids))] :
                 ids \in get_messages(user_id, since)}

\* GET messages/group: the responses it may give
server_receive_group_messages(token, since) ==
    LET user_id == get_current_user(token)
    IN  IF user_id = 0 THEN {[status |-> 401, returned |-> <<>>]}
        ELSE {[status |-> 200, returned |-> ids] :
                 ids \in get_group_messages(user_id, since)}

\* The membership rows POST groups/create adds after the creator's.
RECURSIVE AddListed(_, _, _)
AddListed(tbl, group_id, ids) ==
    IF ids = {} THEN tbl
    ELSE LET u == CHOOSE x \in ids : TRUE
         IN  AddListed(add_group_member_row(tbl, group_id, u).group_members,
                       group_id, ids \ {u})

\* POST groups/create
server_create_group(token, name, members) ==
    LET user_id == get_current_user(token)
        g == create_group_row(name, user_id)
        ids == {get_user_by_username(m) : m \in members} \ {0}
    IN  IF user_id = 0
        THEN [status |-> 401, groups_tbl |-> groups_tbl, group_members |-> group_members]
        ELSE [status |-> 200, groups_tbl |-> g.groups_tbl,
              group_members |-> AddListed(g.group_members, g.group_id, ids)]

\* An add route without the caller's membership check.
server_add_group_member_open(token, group_id, username) ==
    LET user_id == get_current_user(token)
        user_to_add == get_user_by_username(username)
        added == add_group_member_row(group_members, group_id, user_to_add)
    IN  IF user_id = 0 THEN [status |-> 401, group_members |-> group_members]
        ELSE IF user_to_add = 0 THEN [status |-> 404, group_members |-> group_members]
        ELSE IF ~added.success THEN [status |-> 400, group_members |-> group_members]
        ELSE [status |-> 200, group_members |-> added.group_members]

\* POST groups/{group_id}/add
server_add_group_member(token, group_id, username) ==
    LET user_id == get_current_user(token)
        user_to_add == get_user_by_username(username)
        added == add_group_member_row(group_members, group_id, user_to_add)
    IN  IF user_id = 0 THEN [status |-> 401, group_members |-> group_members]
        ELSE IF [group_id |-> group_id, user_id |-> user_id] \notin group_members
        THEN [status |-> 403, group_members |-> group_members]
        ELSE IF user_to_add = 0 THEN [status |-> 404, group_members |-> group_members]
        ELSE IF ~added.success THEN [status |-> 400, group_members |-> group_members]
        ELSE [status |-> 200, group_members |-> added.group_members]

\* GET groups/{group_id}/members
server_get_group_members(token, group_id) ==
    LET user_id == get_current_user(token)
    IN  IF user_id = 0 THEN [status |-> 401, members |-> {}]
        ELSE IF [group_id |-> group_id, user_id |-> user_id] \notin group_members
        THEN [status |-> 403, members |-> {}]
        ELSE [status |-> 200, members |-> get_group_members_rows(group_id)]

\* -------------------------------------------- Client/data_manager.py
\* A save that passes over a message the conversation already holds.
save_message_once(vault, key, message) ==
    LET old == IF key \in DOMAIN vault.mh THEN vault.mh[key] ELSE <<>>
        new == IF \E i \in DOMAIN old : old[i] = message THEN old ELSE Append(old, message)
    IN  [mh |-> [x \in (DOMAIN vault.mh) \cup {key} |-> IF x = key THEN new ELSE vault.mh[x]],
         files |-> [x \in (DOMAIN vault.files) \cup {key} |->
                       IF x = key THEN new ELSE vault.files[x]]]

\* save_message: append in memory, then rewrite the conversation's file.
\* A vault is [mh |-> message_history, files |-> history files].
save_message(vault, key, message) ==
    LET old == IF key \in DOMAIN vault.mh THEN vault.mh[key] ELSE <<>>
        new == Append(old, message)
    IN  [mh |-> Put(vault.mh, key, new), files |-> Put(vault.files, key, new)]

\* save_message over a list of <<key, message>> pairs, in order.
RECURSIVE SaveAll(_, _)
SaveAll(vault, entries) ==
    IF entries = <<>> THEN vault
    ELSE SaveAll(save_message(vault, Head(entries)[1], Head(entries)[2]), Tail(entries))

\* save_relations: the relations.json written for the two lists.
save_relations(fr, gr) == [exists |-> TRUE, friends |-> fr, groups |-> gr]

\* load_relations: the lists read back, empty when the file is missing.
load_relations(file) ==
    IF file.exists THEN [friends |-> file.friends, groups |-> file.groups]
    ELSE [friends |-> <<>>, groups |-> <<>>]

\* The conversation keys load_message_history and
\* ensure_message_files_exist walk over.
RelationKeys(fr, gr) ==
    {DmKey(fr[i]) : i \in DOMAIN fr} \cup {GroupKey(gr[i]) : i \in DOMAIN gr}

\* load_message_history: the files of the listed friends and groups.
load_message_history(files, fr, gr) ==
    [k \in RelationKeys(fr, gr) \cap DOMAIN files |-> files[k]]

\* load_sync_time: 0 when the file is missing.
load_sync_time(file) == IF file.exists THEN file.value ELSE 0

\* A save that writes the file and leaves the field at its initial 0.
save_sync_time_forgetting(t_file, t_field) ==
    [file |-> [exists |-> TRUE, value |-> t_file], field |-> 0]

\* save_sync_time: the file takes one clock reading, the field a second.
save_sync_time(t_file, t_field) ==
    [file |-> [exists |-> TRUE, value |-> t_file], field |-> t_field]

\* prepare_backup_data, the clock reading t.
prepare_backup_data(c, t) ==
    [friends |-> friends[c],
     groups |-> groups[c],
     message_history |->
         [k \in DOMAIN message_history[c] |->
             encrypt_data_for_storage(message_history[c][k], symmetric_key[c])],
     timestamp |-> t]

\* The conversations of a snapshot that decrypt under the key.
Restorable(backup_data, key) ==
    {k \in DOMAIN backup_data.message_history :
        decrypt_data_from_storage(backup_data.message_history[k], key).ok}

\* A restore that refreshes only the conversations the vault already holds.
restore_existing_only(vault, key, backup_data) ==
    LET opened == Restorable(backup_data, key) \cap DOMAIN vault.mh
        value(k) == decrypt_data_from_storage(backup_data.message_history[k], key).value
    IN  [friends |-> backup_data.friends,
         groups |-> backup_data.groups,
         relations_file |-> save_relations(backup_data.friends, backup_data.groups),
         message_history |->
             [k \in DOMAIN vault.mh |-> IF k \in opened THEN value(k) ELSE vault.mh[k]],
         history_files |->
             [k \in DOMAIN vault.files \cup opened |->
                 IF k \in opened THEN value(k) ELSE vault.files[k]]]

\* A restore whose loop stops for good when one conversation fails to
\* decrypt: no conversation is restored unless all of them are.
restore_from_backup_aborting(vault, key, backup_data) ==
    LET opened == IF Restorable(backup_data, key) = DOMAIN backup_data.message_history
                  THEN DOMAIN backup_data.message_history ELSE {}
        value(k) == decrypt_data_from_storage(backup_data.message_history[k], key).value
    IN  [friends |-> backup_data.friends,
         groups |-> backup_data.groups,
         relations_file |-> save_relations(backup_data.friends, backup_data.groups),
         message_history |->
             [k \in DOMAIN vault.mh \cup opened |->
                 IF k \in opened THEN value(k) ELSE vault.mh[k]],
         history_files |->
             [k \in DOMAIN vault.files \cup opened |->
                 IF k \in opened THEN value(k) ELSE vault.files[k]]]

\* restore_from_backup on the loaded vault [mh, files] under the local
\* symmetric key: the vault contents it leaves (the sync time is set by the
\* caller's clock readings, see save_sync_time).
restore_from_backup(vault, key, backup_data) ==
    LET opened == Restorable(backup_data, key)
        value(k) == decrypt_data_from_storage(backup_data.message_history[k], key).value
    IN  [friends |-> backup_data.friends,
         groups |-> backup_data.groups,
         relations_file |-> save_relations(backup_data.friends, backup_data.groups),
         message_history |->
             [k \in DOMAIN vault.mh \cup opened |->
                 IF k \in opened THEN value(k) ELSE vault.mh[k]],
         history_files |->
             [k \in DOMAIN vault.files \cup opened |->
                 IF k \in opened THEN value(k) ELSE vault.files[k]]]

\* ensure_message_files_exist: an empty file for every listed friend and
\* group that has none.
ensure_message_files_exist(files, fr, gr) ==
    [k \in DOMAIN files \cup RelationKeys(fr, gr) |->
        IF k \in DOMAIN files THEN files[k] ELSE <<>>]

\* ------------------------------------------------------------------ Init
\* First launch of every client against an empty relay database:
\* load_or_generate_keys has generated key material, nothing else exists.
Init ==
    /\ now = 1
    /\ users = <<>>
    /\ auth_tokens = {}
    /\ tokens_issued = 0
    /\ friends_tbl = <<>>
    /\ groups_tbl = <<>>
    /\ group_members = {}
    /\ messages = <<>>
    /\ user_backups = <<>>
    /\ event_loop = LoopIdle
    /\ symmetric_key = [c \in Clients |-> KeyOf(c, 0)]
    /\ private_key = [c \in Clients |-> KeyOf(c, 0)]
    /\ friend_public_keys = [c \in Clients |-> EmptyDict]
    /\ installs = [c \in Clients |-> 0]
    /\ key_files = [c \in Clients |-> KeysOnDisk(KeyOf(c, 0))]
    /\ auth_token = [c \in Clients |-> NoToken]
    /\ friends = [c \in Clients |-> <<>>]
    /\ groups = [c \in Clients |-> <<>>]
    /\ message_history = [c \in Clients |-> EmptyDict]
    /\ last_sync_time = [c \in Clients |-> 0]
    /\ current_chat = [c \in Clients |-> NoChat]
    /\ relations_file = [c \in Clients |-> NoFile]
    /\ history_files = [c \in Clients |-> EmptyDict]
    /\ last_sync_file = [c \in Clients |-> NoFile]
    /\ last = [op |-> "init", c |-> 0, ok |-> TRUE, restored |-> FALSE]
    /\ pushed = [c \in Clients |-> [some |-> FALSE]]

Did(op, c, ok, restored) == [op |-> op, c |-> c, ok |-> ok, restored |-> restored]

\* The clock readings a handler may take after the current one.
Later(t) == {t, t + 1} \cap (1..MaxTime)

\* ------------------------------------------------------------------ clock
Tick ==
    /\ now < MaxTime
    /\ now' = now + 1
    /\ last' = Did("tick", 0, TRUE, FALSE)
    /\ UNCHANGED <<relay_vars, key_vars, vault_vars, sync_vars, auth_token,
                   current_chat, pushed>>

\* ------------------------------------------- MessengerWindow.register
\* The body ServerAPI.register posts (password and email are no key
\* material and are left out).
register_request(c) ==
    [username |-> UserNameOf(c), public_key |-> Pub(private_key[c])]

\* The body ServerAPI.login posts.
login_request(c) == [username |-> UserNameOf(c)]

\* The register dialog against POST auth/register.
register(c) ==
    LET username == UserNameOf(c)
        success == get_user_by_username(username) = 0
        user_id == Len(users) + 1
        token == tokens_issued + 1
    IN  /\ auth_token[c] = NoToken
        /\ tokens_issued < MaxTokens
        /\ IF success
           THEN /\ users' = Append(users, [username |-> username,
                                           public_key |-> register_request(c).public_key])
                /\ auth_tokens' = create_auth_token(user_id, token)
                /\ tokens_issued' = token
                /\ auth_token' = [auth_token EXCEPT ![c] = token]
           ELSE UNCHANGED <<users, auth_tokens, tokens_issued, auth_token>>
        /\ history_files' = [history_files EXCEPT
               ![c] = ensure_message_files_exist(@, friends[c], groups[c])]
        /\ last' = Did("register", c, success, FALSE)
        /\ UNCHANGED <<event_loop, now, friends_tbl, groups_tbl, group_members, messages,
                       user_backups, key_vars, friends, groups, message_history,
                       relations_file, sync_vars, current_chat, pushed>>

\* What a start or a login does with a restore response: restore_from_backup
\* and save_sync_time on success, nothing otherwise; then
\* ensure_message_files_exist.  t_file and t_field are save_sync_time's
\* clock readings.
ApplyRestore(c, vault, fr, gr, sync, resp, t_file, t_field) ==
    IF resp.success
    THEN LET r == restore_from_backup(vault, symmetric_key[c], resp.data)
             st == save_sync_time(t_file, t_field)
         IN  /\ friends' = [friends EXCEPT ![c] = r.friends]
             /\ groups' = [groups EXCEPT ![c] = r.groups]
             /\ relations_file' = [relations_file EXCEPT ![c] = r.relations_file]
             /\ message_history' = [message_history EXCEPT ![c] = r.message_history]
             /\ history_files' = [history_files EXCEPT
                    ![c] = ensure_message_files_exist(r.history_files, r.friends, r.groups)]
             /\ last_sync_file' = [last_sync_file EXCEPT ![c] = st.file]
             /\ last_sync_time' = [last_sync_time EXCEPT ![c] = st.field]
             /\ now' = t_field
    ELSE /\ friends' = [friends EXCEPT ![c] = fr]
         /\ groups' = [groups EXCEPT ![c] = gr]
         /\ message_history' = [message_history EXCEPT ![c] = vault.mh]
         /\ history_files' = [history_files EXCEPT
                ![c] = ensure_message_files_exist(vault.files, fr, gr)]
         /\ last_sync_time' = [last_sync_time EXCEPT ![c] = sync]
         /\ t_file = now /\ t_field = now
         /\ UNCHANGED <<relations_file, last_sync_file, now>>

\* ---------------------------------------------- MessengerWindow.login
\* The login dialog against POST auth/login, then GET users/restore and
\* restore_from_backup.
login(c, t_file, t_field) ==
    LET user_id == get_user_by_username(UserNameOf(c))
        success == user_id # 0
        token == tokens_issued + 1
    IN  /\ auth_token[c] = NoToken
        /\ tokens_issued < MaxTokens
        /\ IF success
           THEN /\ auth_tokens' = create_auth_token(user_id, token)
                /\ tokens_issued' = token
                /\ auth_token' = [auth_token EXCEPT ![c] = token]
                /\ \E resp \in server_restore_user_data(user_id) :
                      /\ ApplyRestore(c, [mh |-> message_history[c], files |-> history_files[c]],
                                      friends[c], groups[c], last_sync_time[c],
                                      resp, t_file, t_field)
                      /\ last' = Did("login", c, TRUE, resp.success)
           ELSE /\ t_file = now /\ t_field = now
                /\ last' = Did("login", c, FALSE, FALSE)
                /\ UNCHANGED <<auth_tokens, tokens_issued, auth_token, now,
                               vault_vars, sync_vars>>
        /\ UNCHANGED <<event_loop, users, friends_tbl, groups_tbl, group_members, messages,
                       user_backups, key_vars, current_chat, pushed>>

\* ------------------------------------------- MessengerWindow.__init__
\* The process is stopped and started again: the managers reload the
\* files, and check_server_connection restores when there is a token and
\* the loaded sync time is 0.
restart(c, t_file, t_field) ==
    LET rel == load_relations(relations_file[c])
        mh == load_message_history(history_files[c], rel.friends, rel.groups)
        sync == load_sync_time(last_sync_file[c])
        user_id == validate_auth_token(auth_token[c])
        asks == auth_token[c] # NoToken /\ sync = 0
    IN  /\ \E resp \in (IF asks THEN server_restore_user_data(user_id)
                               ELSE {[success |-> FALSE]}) :
              /\ ApplyRestore(c, [mh |-> mh, files |-> history_files[c]],
                              rel.friends, rel.groups, sync, resp, t_file, t_field)
              /\ last' = Did("restart", c, TRUE, resp.success)
        /\ current_chat' = [current_chat EXCEPT ![c] = NoChat]
        /\ UNCHANGED <<relay_vars, key_vars, auth_token, pushed>>

\* ------------------------------- first launch of a new installation
\* The installation's files are removed and the client is started:
\* load_or_generate_keys generates new key material unless the Keys
\* directory was carried over (keep_keys); nothing else is found on disk.
fresh_install(c, keep_keys) ==
    /\ keep_keys \/ installs[c] < MaxInstalls
    /\ IF keep_keys
       THEN UNCHANGED key_vars
       ELSE /\ installs' = [installs EXCEPT ![c] = @ + 1]
            /\ symmetric_key' = [symmetric_key EXCEPT ![c] = KeyOf(c, installs[c] + 1)]
            /\ private_key' = [private_key EXCEPT ![c] = KeyOf(c, installs[c] + 1)]
            /\ key_files' = [key_files EXCEPT ![c] = KeysOnDisk(KeyOf(c, installs[c] + 1))]
            /\ friend_public_keys' = [friend_public_keys EXCEPT ![c] = EmptyDict]
    /\ auth_token' = [auth_token EXCEPT ![c] = NoToken]
    /\ friends' = [friends EXCEPT ![c] = <<>>]
    /\ groups' = [groups EXCEPT ![c] = <<>>]
    /\ message_history' = [message_history EXCEPT ![c] = EmptyDict]
    /\ relations_file' = [relations_file EXCEPT ![c] = NoFile]
    /\ history_files' = [history_files EXCEPT ![c] = EmptyDict]
    /\ last_sync_time' = [last_sync_time EXCEPT ![c] = 0]
    /\ last_sync_file' = [last_sync_file EXCEPT ![c] = NoFile]
    /\ current_chat' = [current_chat EXCEPT ![c] = NoChat]
    /\ last' = Did("fresh_install", c, TRUE, FALSE)
    /\ UNCHANGED <<now, relay_vars, pushed>>

\* ------------------------------------------ MessengerWindow.add_friend
\* GET users/public-key, save_friend_public_key, DataManager.add_friend,
\* then POST friends/add, whose outcome the client ignores.
add_friend(c, username) ==
    LET user_id == validate_auth_token(auth_token[c])
        friend_id == get_user_by_username(username)
        success == user_id # 0 /\ friend_id # 0
        known == username \in Range(friends[c])
        fr == IF known THEN friends[c] ELSE Append(friends[c], username)
    IN  /\ auth_token[c] # NoToken
        /\ IF success
           THEN /\ friend_public_keys' = [friend_public_keys EXCEPT
                       ![c] = Put(@, username, users[friend_id].public_key)]
                /\ friends' = [friends EXCEPT ![c] = fr]
                /\ relations_file' = [relations_file EXCEPT
                       ![c] = IF known THEN @ ELSE save_relations(fr, groups[c])]
                /\ friends_tbl' \in add_friend_request(user_id, username)
           ELSE UNCHANGED <<friend_public_keys, friends, relations_file, friends_tbl>>
        /\ last' = Did("add_friend", c, success, FALSE)
        /\ UNCHANGED <<event_loop, now, users, auth_tokens, tokens_issued, groups_tbl,
                       group_members, messages, user_backups, symmetric_key,
                       private_key, installs, key_files, auth_token, groups,
                       message_history,
                       history_files, sync_vars, current_chat, pushed>>

\* ---------------------------------- MessengerWindow.on_friend_selected
on_friend_selected(c, selected_friend) ==
    /\ selected_friend \in Range(friends[c])
    /\ current_chat' = [current_chat EXCEPT
           ![c] = [kind |-> "friend", name |-> selected_friend]]
    /\ message_history' = [message_history EXCEPT
           ![c] = IF DmKey(selected_friend) \in DOMAIN @ THEN @
                  ELSE Put(@, DmKey(selected_friend), <<>>)]
    /\ last' = Did("on_friend_selected", c, TRUE, FALSE)
    /\ UNCHANGED <<now, relay_vars, key_vars, friends, groups, relations_file,
                   history_files, sync_vars, auth_token, pushed>>

\* Whether every conversation of a vault fits the model's history bound.
Fits(vault) == \A k \in DOMAIN vault.mh : Len(vault.mh[k]) <= MaxHist

\* ---------------------------------------- MessengerWindow.send_message
\* The direct branch: encrypt for the open chat's friend, save locally
\* first, then POST messages/send with the friend's username as recipient.
\* (The group branch is never entered: no handler adds to groups.)
send_message(c, message, mk, net) ==
    LET recipient == current_chat[c].name
        vault == [mh |-> message_history[c], files |-> history_files[c]]
        saved == save_message(vault, DmKey(recipient), <<"You", message>>)
        enc == encrypt_message(message, friend_public_keys[c][recipient], mk)
        resp == IF auth_token[c] # NoToken /\ net
                THEN server_send_message(auth_token[c], recipient, enc.key,
                                         enc.message, FALSE)
                ELSE [status |-> 0, messages |-> messages]
    IN  /\ current_chat[c] # NoChat
        /\ IF recipient \in DOMAIN friend_public_keys[c]
           THEN /\ Fits(saved)
                /\ Len(resp.messages) <= MaxMsgs
                /\ message_history' = [message_history EXCEPT ![c] = saved.mh]
                /\ history_files' = [history_files EXCEPT ![c] = saved.files]
                /\ messages' = resp.messages
                /\ last' = Did("send_message", c, resp.status = 200, FALSE)
           ELSE /\ last' = Did("send_message", c, FALSE, FALSE)
                /\ UNCHANGED <<message_history, history_files, messages>>
        /\ UNCHANGED <<event_loop, now, users, auth_tokens, tokens_issued, friends_tbl,
                       groups_tbl, group_members, user_backups, key_vars,
                       friends, groups, relations_file, sync_vars, auth_token,
                       current_chat, pushed>>

\* -------------------------------------------- ServerAPI.send_message
\* One envelope, encrypted for the public key pk, posted to messages/send
\* for a recipient id.
api_send_message(c, recipient_id, pk, message, mk) ==
    LET enc == encrypt_message(message, pk, mk)
        resp == server_send_message(auth_token[c], recipient_id,
                                    enc.key, enc.message, FALSE)
    IN  /\ auth_token[c] # NoToken
        /\ Len(resp.messages) <= MaxMsgs
        /\ messages' = resp.messages
        /\ last' = Did("api_send_message", c, resp.status = 200, FALSE)
        /\ UNCHANGED <<event_loop, now, users, auth_tokens, tokens_issued, friends_tbl,
                       groups_tbl, group_members, user_backups, key_vars,
                       vault_vars, sync_vars, auth_token, current_chat, pushed>>

\* The public key GET users/public-key returns for a username.
get_public_key(username) == users[get_user_by_username(username)].public_key

\* -------------------------------------- ServerAPI.send_group_message
\* One envelope, encrypted for the public key pk, posted to messages/send
\* with is_group set.
GroupIdText(group_id) == IF group_id = 1 THEN "1" ELSE "2"

send_group_message(c, group_id, pk, message, mk) ==
    LET enc == encrypt_message(message, pk, mk)
        resp == server_send_message(auth_token[c], GroupIdText(group_id),
                                    enc.key, enc.message, TRUE)
    IN  /\ auth_token[c] # NoToken
        /\ Len(resp.messages) <= MaxMsgs
        /\ messages' = resp.messages
        /\ last' = Did("send_group_message", c, resp.status = 200, FALSE)
        /\ UNCHANGED <<event_loop, now, users, auth_tokens, tokens_issued, friends_tbl,
                       groups_tbl, group_members, user_backups, key_vars,
                       vault_vars, sync_vars, auth_token, current_chat, pushed>>

\* ---------------------------------------- MessengerWindow.create_group
\* POST groups/create adds the group, its creator and the listed users
\* that exist; the client's add_group call then raises (DataManager.add_group
\* takes one argument), so nothing is recorded locally.
MaxGroups == 1

create_group(c, name, members) ==
    LET user_id == validate_auth_token(auth_token[c])
        success == user_id # 0
        group_id == Len(groups_tbl) + 1
        ids == {get_user_by_username(m) : m \in members} \ {0}
    IN  /\ auth_token[c] # NoToken
        /\ Len(groups_tbl) < MaxGroups
        /\ IF success
           THEN /\ groups_tbl' = Append(groups_tbl, [name |-> name, created_by |-> user_id])
                /\ group_members' = group_members \cup
                       {[group_id |-> group_id, user_id |-> u] : u \in ids \cup {user_id}}
           ELSE UNCHANGED <<groups_tbl, group_members>>
        /\ last' = Did("create_group", c, success, FALSE)
        /\ UNCHANGED <<event_loop, now, users, auth_tokens, tokens_issued, friends_tbl,
                       messages, user_backups, key_vars, vault_vars, sync_vars,
                       auth_token, current_chat, pushed>>

\* ------------------------------------ MessengerWindow.poll_for_messages
\* The <<key, message>> pairs the direct loop saves for a result list:
\* one per message that decrypts under the private key.
RECURSIVE DirectEntries(_, _)
DirectEntries(ids, sk) ==
    IF ids = <<>> THEN <<>>
    ELSE LET m == messages[Head(ids)]
             sender == users[m.sender_id].username
             dec == decrypt_message([key |-> m.encrypted_key,
                                     message |-> m.encrypted_content], sk)
         IN  (IF dec.ok THEN <<<<DmKey(sender), <<sender, dec.value>>>>>> ELSE <<>>)
             \o DirectEntries(Tail(ids), sk)

\* The same for the group loop.
RECURSIVE GroupEntries(_, _)
GroupEntries(ids, sk) ==
    IF ids = <<>> THEN <<>>
    ELSE LET m == messages[Head(ids)]
             sender == users[m.sender_id].username
             group_name == groups_tbl[m.recipient_id].name
             dec == decrypt_message([key |-> m.encrypted_key,
                                     message |-> m.encrypted_content], sk)
         IN  (IF dec.ok
              THEN <<<<GroupKey(group_name), <<sender, group_name, dec.value>>>>>>
              ELSE <<>>)
             \o GroupEntries(Tail(ids), sk)

\* A poll that moves the sync time to the clock reading of the fetch.
PollSyncTimeAdvancing(sync) == now

\* What a poll does to the sync time: nothing.
PollSyncTime(sync) == sync

poll_for_messages(c) ==
    LET user_id == validate_auth_token(auth_token[c])
        vault == [mh |-> message_history[c], files |-> history_files[c]]
    IN  /\ auth_token[c] # NoToken
        /\ \E dm \in (IF user_id # 0 THEN get_messages(user_id, last_sync_time[c])
                                     ELSE {<<>>}) :
           \E gm \in (IF user_id # 0 THEN get_group_messages(user_id, last_sync_time[c])
                                     ELSE {<<>>}) :
              LET saved == SaveAll(vault, DirectEntries(dm, private_key[c])
                                          \o GroupEntries(gm, private_key[c]))
              IN  /\ Fits(saved)
                  /\ messages' = MarkDelivered(Range(dm))
                  /\ message_history' = [message_history EXCEPT ![c] = saved.mh]
                  /\ history_files' = [history_files EXCEPT ![c] = saved.files]
        /\ last_sync_time' = [last_sync_time EXCEPT ![c] = PollSyncTime(@)]
        /\ last_sync_file' = [last_sync_file EXCEPT
               ![c] = IF @.exists THEN [@ EXCEPT !.value = PollSyncTime(@)] ELSE @]
        /\ last' = Did("poll_for_messages", c, user_id # 0, FALSE)
        /\ UNCHANGED <<event_loop, now, users, auth_tokens, tokens_issued, friends_tbl,
                       groups_tbl, group_members, user_backups, key_vars,
                       friends, groups, relations_file, auth_token,
                       current_chat, pushed>>

\* ------------------------------------- MessengerWindow.backup_user_data
\* prepare_backup_data at the current clock reading, POST users/backup,
\* and save_sync_time when the response reports success.  net is "ok",
\* "down" (the request never arrives) or "lost" (the relay stores the
\* snapshot and the response never arrives).
backup_user_data(c, net, t_file, t_field) ==
    LET backup_data == prepare_backup_data(c, now)
        resp == IF net = "down" THEN [status |-> 0, user_backups |-> user_backups]
                ELSE server_backup_user_data(auth_token[c], backup_data, now)
        success == net = "ok" /\ resp.status = 200
        st == save_sync_time(t_file, t_field)
    IN  /\ auth_token[c] # NoToken
        /\ user_backups' = resp.user_backups
        /\ pushed' = IF resp.status = 200
                     THEN [pushed EXCEPT ![c] =
                              [some |-> TRUE, friends |-> friends[c], groups |-> groups[c],
                               message_history |-> message_history[c]]]
                     ELSE pushed
        /\ IF success
           THEN /\ last_sync_file' = [last_sync_file EXCEPT ![c] = st.file]
                /\ last_sync_time' = [last_sync_time EXCEPT ![c] = st.field]
                /\ now' = t_field
           ELSE /\ t_file = now /\ t_field = now
                /\ UNCHANGED <<sync_vars, now>>
        /\ last' = Did("backup_user_data", c, success, FALSE)
        /\ UNCHANGED <<event_loop, users, auth_tokens, tokens_issued, friends_tbl, groups_tbl,
                       group_members, messages, key_vars, vault_vars, auth_token,
                       current_chat>>

\* ------------------------------------------------- the relay's routes
\* The routes of server.py called directly: any bearer token may be
\* presented, NoToken standing for a request without one.  last records
\* the route, the token presented, the caller it resolved to, the status
\* answered and the route's own result.
RelayDid(op, token, status, returned, group_id, members) ==
    [op |-> op, c |-> 0, ok |-> status = 200, restored |-> FALSE,
     token |-> token, user |-> get_current_user(token), status |-> status,
     returned |-> returned, group_id |-> group_id, members |-> members]

client_vars == <<key_vars, vault_vars, sync_vars, auth_token, current_chat, pushed>>

\* The tokens a request may carry.
Bearers == NoToken..MaxTokens

\* The envelope the relay is handed; it stores it unread.
RelayEnvelope ==
    encrypt_message(CHOOSE m \in Texts : TRUE, Pub(KeyOf(1, 0)), CHOOSE k \in MsgKeys : TRUE)

\* The clock of int(time.time()) runs on by d seconds, once.
Sleep(d) ==
    /\ now <= MaxTime
    /\ now' = now + d
    /\ last' = RelayDid("sleep", NoToken, 200, <<>>, 0, {})
    /\ UNCHANGED <<relay_vars, client_vars>>

route_register(username) ==
    LET token == tokens_issued + 1
        resp == server_register(username, Pub(KeyOf(ParseInt(username), 0)), token)
    IN  /\ tokens_issued < MaxTokens
        /\ users' = resp.users
        /\ auth_tokens' = resp.auth_tokens
        /\ tokens_issued' = IF resp.status = 200 THEN token ELSE tokens_issued
        /\ last' = RelayDid("register", NoToken, resp.status, <<>>, 0, {})
        /\ UNCHANGED <<event_loop, now, friends_tbl, groups_tbl, group_members, messages,
                       user_backups, client_vars>>

route_login(username) ==
    LET token == tokens_issued + 1
        resp == server_login(username, token)
    IN  /\ tokens_issued < MaxTokens
        /\ auth_tokens' = resp.auth_tokens
        /\ tokens_issued' = IF resp.status = 200 THEN token ELSE tokens_issued
        /\ last' = RelayDid("login", NoToken, resp.status, <<>>, 0, {})
        /\ UNCHANGED <<event_loop, now, users, friends_tbl, groups_tbl, group_members, messages,
                       user_backups, client_vars>>

route_logout(token) ==
    LET resp == server_logout(token)
    IN  /\ auth_tokens' = resp.auth_tokens
        /\ last' = RelayDid("logout", token, resp.status, <<>>, 0, {})
        /\ UNCHANGED <<event_loop, now, users, tokens_issued, friends_tbl, groups_tbl,
                       group_members, messages, user_backups, client_vars>>

route_get_public_key(token, username) ==
    /\ last' = RelayDid("get_public_key", token,
                        server_get_public_key(token, username).status, <<>>, 0, {})
    /\ UNCHANGED <<now, relay_vars, client_vars>>

route_search_users(token, query) ==
    /\ last' = RelayDid("search_users", token,
                        server_search_users(token, query).status, <<>>, 0, {})
    /\ UNCHANGED <<now, relay_vars, client_vars>>

route_add_friend(token, username) ==
    \E resp \in server_add_friend(token, username) :
        /\ friends_tbl' = resp.friends_tbl
        /\ last' = RelayDid("add_friend", token, resp.status, <<>>, 0, {username})
        /\ UNCHANGED <<event_loop, now, users, auth_tokens, tokens_issued, groups_tbl,
                       group_members, messages, user_backups, client_vars>>

\* What last records of a friends/respond call: the request id and the
\* answer next to the caller and the status.
RespondDid(token, status, request_id, accept) ==
    [op |-> "respond_to_friend_request", c |-> 0, ok |-> status = 200,
     restored |-> FALSE, token |-> token, user |-> get_current_user(token),
     status |-> status, request_id |-> request_id, accept |-> accept]

route_get_friend_requests(token) ==
    /\ last' = RelayDid("get_friend_requests", token,
                        server_get_friend_requests(token).status, <<>>, 0, {})
    /\ UNCHANGED <<now, relay_vars, client_vars>>

route_respond_to_friend_request(token, request_id, accept) ==
    \E resp \in server_respond_to_friend_request(token, request_id, accept) :
        /\ friends_tbl' = resp.friends_tbl
        /\ last' = RespondDid(token, resp.status, request_id, accept)
        /\ UNCHANGED <<event_loop, now, users, auth_tokens, tokens_issued, groups_tbl,
                       group_members, messages, user_backups, client_vars>>

route_get_friends(token) ==
    /\ last' = RelayDid("get_friends", token, server_get_friends(token).status,
                        <<>>, 0, {})
    /\ UNCHANGED <<now, relay_vars, client_vars>>

route_send_message(token, recipient_id, is_group) ==
    LET resp == server_send_message(token, recipient_id, RelayEnvelope.key,
                                    RelayEnvelope.message, is_group)
    IN  /\ Len(messages) < MaxMsgs
        /\ messages' = resp.messages
        /\ last' = RelayDid("send_message", token, resp.status, <<>>, 0, {})
        /\ UNCHANGED <<event_loop, now, users, auth_tokens, tokens_issued, friends_tbl,
                       groups_tbl, group_members, user_backups, client_vars>>

route_receive_messages(token, since) ==
    \E resp \in server_receive_messages(token, since) :
        /\ messages' = resp.messages
        /\ last' = RelayDid("receive_messages", token, resp.status, resp.returned, 0, {})
        /\ UNCHANGED <<event_loop, now, users, auth_tokens, tokens_issued, friends_tbl,
                       groups_tbl, group_members, user_backups, client_vars>>

route_receive_group_messages(token, since) ==
    \E resp \in server_receive_group_messages(token, since) :
        /\ last' = RelayDid("receive_group_messages", token, resp.status,
                            resp.returned, 0, {})
        /\ UNCHANGED <<now, relay_vars, client_vars>>

route_create_group(token, name, members) ==
    LET resp == server_create_group(token, name, members)
    IN  /\ Len(groups_tbl) < MaxGroups
        /\ groups_tbl' = resp.groups_tbl
        /\ group_members' = resp.group_members
        /\ last' = RelayDid("create_group", token, resp.status, <<>>,
                            Len(groups_tbl) + 1, members)
        /\ UNCHANGED <<event_loop, now, users, auth_tokens, tokens_issued, friends_tbl,
                       messages, user_backups, client_vars>>

route_add_group_member(token, group_id, username) ==
    LET resp == server_add_group_member(token, group_id, username)
    IN  /\ group_members' = resp.group_members
        /\ last' = RelayDid("add_group_member", token, resp.status, <<>>,
                            group_id, {username})
        /\ UNCHANGED <<event_loop, now, users, auth_tokens, tokens_issued, friends_tbl,
                       groups_tbl, messages, user_backups, client_vars>>

route_get_group_members(token, group_id) ==
    /\ last' = RelayDid("get_group_members", token,
                        server_get_group_members(token, group_id).status, <<>>,
                        group_id, {})
    /\ UNCHANGED <<now, relay_vars, client_vars>>

route_backup_user_data(token, backup_data) ==
    LET resp == server_backup_user_data(token, backup_data, now)
    IN  /\ user_backups' = resp.user_backups
        /\ last' = RelayDid("backup_user_data", token, resp.status, <<>>, 0, {})
        /\ UNCHANGED <<event_loop, now, users, auth_tokens, tokens_issued, friends_tbl,
                       groups_tbl, group_members, messages, client_vars>>

route_restore_user_data(token) ==
    /\ last' = RelayDid("restore_user_data", token,
                        IF get_current_user(token) = 0 THEN 401 ELSE 200, <<>>, 0, {})
    /\ UNCHANGED <<now, relay_vars, client_vars>>

\* ------------------------------------------------------------------ Next
\* Both clients have registered, client 1 first.
InitRegistered ==
    /\ now = 1
    /\ users = [c \in Clients |-> [username |-> UserNameOf(c),
                                   public_key |-> Pub(KeyOf(c, 0))]]
    /\ auth_tokens = {[user_id |-> c, token |-> c, created_at |-> 1,
                       expires_at |-> 1 + TokenTTL] : c \in Clients}
    /\ tokens_issued = Cardinality(Clients)
    /\ friends_tbl = <<>>
    /\ groups_tbl = <<>>
    /\ group_members = {}
    /\ messages = <<>>
    /\ user_backups = <<>>
    /\ event_loop = LoopIdle
    /\ symmetric_key = [c \in Clients |-> KeyOf(c, 0)]
    /\ private_key = [c \in Clients |-> KeyOf(c, 0)]
    /\ friend_public_keys = [c \in Clients |-> EmptyDict]
    /\ installs = [c \in Clients |-> 0]
    /\ key_files = [c \in Clients |-> KeysOnDisk(KeyOf(c, 0))]
    /\ auth_token = [c \in Clients |-> c]
    /\ friends = [c \in Clients |-> <<>>]
    /\ groups = [c \in Clients |-> <<>>]
    /\ message_history = [c \in Clients |-> EmptyDict]
    /\ last_sync_time = [c \in Clients |-> 0]
    /\ current_chat = [c \in Clients |-> NoChat]
    /\ relations_file = [c \in Clients |-> NoFile]
    /\ history_files = [c \in Clients |-> EmptyDict]
    /\ last_sync_file = [c \in Clients |-> NoFile]
    /\ last = Did("register", 2, TRUE, FALSE)
    /\ pushed = [c \in Clients |-> [some |-> FALSE]]

\* The backup and restore cycle of one desktop client, with a peer account
\* sending to it.
Next ==
    \/ Tick
    \/ \E c \in Owners : \E t_file \in Later(now) : \E t_field \in Later(t_file) :
          login(c, t_file, t_field)
    \/ \E c \in Owners : \E t_file \in Later(now) : \E t_field \in Later(t_file) :
          restart(c, t_file, t_field)
    \/ \E c \in Owners, keep_keys \in BOOLEAN : fresh_install(c, keep_keys)
    \/ \E c \in Owners : \E username \in UserNames \ {UserNameOf(c)} :
          add_friend(c, username)
    \/ \E c \in Peers, recipient_id \in UserNames, message \in Texts, mk \in MsgKeys :
          api_send_message(c, recipient_id, get_public_key(recipient_id), message, mk)
    \/ \E c \in Owners : poll_for_messages(c)
    \/ \E c \in Owners, net \in {"ok", "down", "lost"} :
          \E t_file \in Later(now) : \E t_field \in Later(t_file) :
             backup_user_data(c, net, t_file, t_field)

Spec == InitRegistered /\ [][Next]_vars

\* First registrations and the chat window: friends, the open chat, sends
\* from the window and from the peer, polls.
NextChat ==
    \/ Tick
    \/ \E c \in Clients : register(c)
    \/ \E c \in Owners : \E username \in UserNames \ {UserNameOf(c)} :
          add_friend(c, username)
    \/ \E c \in Owners, f \in UserNames : on_friend_selected(c, f)
    \/ \E c \in Owners, message \in Texts, mk \in MsgKeys, net \in BOOLEAN :
          send_message(c, message, mk, net)
    \/ \E c \in Peers, recipient_id \in UserNames, i \in DOMAIN users,
          message \in Texts, mk \in MsgKeys :
          api_send_message(c, recipient_id, users[i].public_key, message, mk)
    \/ \E c \in Peers, name \in GroupNames, members \in SUBSET UserNames :
          create_group(c, name, members)
    \/ \E c \in Peers, group_id \in 1..MaxGroups, i \in DOMAIN users,
          message \in Texts, mk \in MsgKeys :
          send_group_message(c, group_id, users[i].public_key, message, mk)
    \/ \E c \in Owners : poll_for_messages(c)

SpecChat == Init /\ [][NextChat]_vars

\* The peer's direct and group envelopes, the client's polls, and the
\* backups that move the sync time.
NextMessaging ==
    \/ Tick
    \/ \E c \in Peers, recipient_id \in UserNames, i \in DOMAIN users,
          message \in Texts, mk \in MsgKeys :
          api_send_message(c, recipient_id, users[i].public_key, message, mk)
    \/ \E c \in Peers, name \in GroupNames, members \in SUBSET UserNames :
          create_group(c, name, members)
    \/ \E c \in Peers, group_id \in 1..MaxGroups, i \in DOMAIN users,
          message \in Texts, mk \in MsgKeys :
          send_group_message(c, group_id, users[i].public_key, message, mk)
    \/ \E c \in Owners : poll_for_messages(c)
    \/ \E c \in Owners, net \in {"ok", "down", "lost"} :
          \E t_file \in Later(now) : \E t_field \in Later(t_file) :
             backup_user_data(c, net, t_file, t_field)

SpecMessaging == InitRegistered /\ [][NextMessaging]_vars

\* The relay's sessions, from an empty database: registration, logins and
\* logouts of one account, every authenticated route called with any bearer
\* token, and a clock that runs to a second before, onto and a second past
\* the expiry of a token issued at the start.
AuthNames == {UserNameOf(1)}
MaxAuthMsgs == 1    \* rows of the messages table in the session runs
Naps == {TokenTTL - 1, TokenTTL, TokenTTL + 1}

NextAuth ==
    \/ \E d \in Naps : Sleep(d)
    \/ \E username \in AuthNames : route_register(username)
    \/ \E username \in AuthNames : route_login(username)
    \/ \E token \in Bearers : route_logout(token)
    \/ \E token \in Bearers, username \in AuthNames : route_get_public_key(token, username)
    \/ \E token \in Bearers, query \in AuthNames : route_search_users(token, query)
    \/ \E token \in Bearers, username \in AuthNames : route_add_friend(token, username)
    \/ \E token \in Bearers, recipient_id \in AuthNames, is_group \in BOOLEAN :
          Len(messages) < MaxAuthMsgs /\ route_send_message(token, recipient_id, is_group)
    \/ \E token \in Bearers : route_receive_messages(token, 0)
    \/ \E token \in Bearers : route_receive_group_messages(token, 0)
    \/ \E token \in Bearers, name \in GroupNames :
          route_create_group(token, name, {})
    \/ \E token \in Bearers, group_id \in 1..MaxGroups, username \in AuthNames :
          route_add_group_member(token, group_id, username)
    \/ \E token \in Bearers, group_id \in 1..MaxGroups :
          route_get_group_members(token, group_id)
    \/ \E token \in Bearers :
          route_backup_user_data(token, prepare_backup_data(1, now))
    \/ \E token \in Bearers : route_restore_user_data(token)

SpecAuth == Init /\ [][NextAuth]_vars

\* The relay's messages and groups between two registered accounts, every
\* route called with either account's token or none.
GroupIds == 1..MaxGroups
Callers == NoToken..Cardinality(Clients)

NextGroups ==
    \/ Tick
    \/ \E token \in Callers, recipient_id \in UserNames \cup {"x"}, is_group \in BOOLEAN :
          route_send_message(token, recipient_id, is_group)
    \/ \E token \in Callers, since \in 0..1 : route_receive_messages(token, since)
    \/ \E token \in Callers, since \in 0..1 : route_receive_group_messages(token, since)
    \/ \E token \in Callers, name \in GroupNames, members \in SUBSET (UserNames \cup {"x"}) :
          route_create_group(token, name, members)
    \/ \E token \in Callers, group_id \in GroupIds, username \in UserNames :
          route_add_group_member(token, group_id, username)
    \/ \E token \in Callers, group_id \in GroupIds : route_get_group_members(token, group_id)

SpecGroups == InitRegistered /\ [][NextGroups]_vars

\* The relay's friend graph between two registered accounts: requests,
\* answers to any request id (answered ones included) and the listings.
MaxRequestId == 3
RequestIds == 1..MaxRequestId

NextFriends ==
    \/ \E token \in Callers, username \in UserNames \cup {"x"} :
          route_add_friend(token, username)
    \/ \E token \in Callers : route_get_friend_requests(token)
    \/ \E token \in Callers, request_id \in RequestIds, accept \in BOOLEAN :
          route_respond_to_friend_request(token, request_id, accept)
    \/ \E token \in Callers : route_get_friends(token)

SpecFriends == InitRegistered /\ [][NextFriends]_vars

\* EncryptionManager on its own: client 1 holds any store of friends'
\* public keys and encrypts for one recipient or for a member list; any
\* private key is then tried on an envelope.
MaxMembers == 2
CryptoNames == {"1", "2", "3"}
CryptoTexts == {"", "a"}
CryptoMsgKeys == {"k", "k2"}
CryptoKeys == {KeyOf(i, 0) : i \in 1..3}
KeyStores ==
    UNION {[S -> {Pub(sk) : sk \in CryptoKeys} \cup {NotRSA}] : S \in SUBSET CryptoNames}
MemberLists == UNION {[1..n -> CryptoNames] : n \in 0..MaxMembers}

InitCrypto ==
    /\ now = 1
    /\ users = <<>>
    /\ auth_tokens = {}
    /\ tokens_issued = 0
    /\ friends_tbl = <<>>
    /\ groups_tbl = <<>>
    /\ group_members = {}
    /\ messages = <<>>
    /\ user_backups = <<>>
    /\ event_loop = LoopIdle
    /\ symmetric_key = [c \in Clients |-> KeyOf(c, 0)]
    /\ private_key = [c \in Clients |-> KeyOf(c, 0)]
    /\ friend_public_keys \in {[c \in Clients |-> IF c = 1 THEN ks ELSE EmptyDict] :
                                  ks \in KeyStores}
    /\ installs = [c \in Clients |-> 0]
    /\ key_files = [c \in Clients |-> KeysOnDisk(KeyOf(c, 0))]
    /\ auth_token = [c \in Clients |-> NoToken]
    /\ friends = [c \in Clients |-> <<>>]
    /\ groups = [c \in Clients |-> <<>>]
    /\ message_history = [c \in Clients |-> EmptyDict]
    /\ last_sync_time = [c \in Clients |-> 0]
    /\ current_chat = [c \in Clients |-> NoChat]
    /\ relations_file = [c \in Clients |-> NoFile]
    /\ history_files = [c \in Clients |-> EmptyDict]
    /\ last_sync_file = [c \in Clients |-> NoFile]
    /\ last = [op |-> "init", c |-> 0, ok |-> TRUE, restored |-> FALSE]
    /\ pushed = [c \in Clients |-> [some |-> FALSE]]

\* What last records of a call into EncryptionManager: the plaintext, the
\* recipients, the private key tried and the value returned.
CryptoDid(op, c, message, recipients, sk, result) ==
    [op |-> op, c |-> c, ok |-> result.ok, restored |-> FALSE,
     message |-> message, recipients |-> recipients, sk |-> sk, result |-> result]

do_encrypt_message(c, message, recipient_username, mk) ==
    /\ last' = CryptoDid("encrypt_message", c, message, <<recipient_username>>, KeyOf(0, 0),
                         encrypt_message_to(friend_public_keys[c], message,
                                            recipient_username, mk))
    /\ UNCHANGED <<now, relay_vars, client_vars>>

\* decrypt_message by the holder of private key sk, on the envelope the
\* last encrypt_message returned.
do_decrypt_message(sk) ==
    /\ last.op = "encrypt_message"
    /\ last.result.ok
    /\ last' = CryptoDid("decrypt_message", last.c, last.message, last.recipients, sk,
                         decrypt_message(last.result.value, sk))
    /\ UNCHANGED <<now, relay_vars, client_vars>>

do_encrypt_group_message(c, message, member_list, mks) ==
    /\ last' = CryptoDid("encrypt_group_message", c, message, member_list, KeyOf(0, 0),
                         encrypt_group_message(friend_public_keys[c], message,
                                               member_list, mks))
    /\ UNCHANGED <<now, relay_vars, client_vars>>

NextCrypto ==
    \/ \E message \in CryptoTexts, recipient_username \in CryptoNames, mk \in CryptoMsgKeys :
          do_encrypt_message(1, message, recipient_username, mk)
    \/ \E sk \in CryptoKeys : do_decrypt_message(sk)
    \/ \E message \in CryptoTexts, member_list \in MemberLists,
          mks \in [CryptoNames -> CryptoMsgKeys] :
          do_encrypt_group_message(1, message, member_list, mks)

SpecCrypto == InitCrypto /\ [][NextCrypto]_vars

\* Restores of snapshots whose conversations were sealed one by one: the
\* account uploads a snapshot through POST users/backup in which every
\* conversation is sealed under the key of the current or of the next
\* installation, and the desktop client restores it at a start or a login.
RestoreConversations == {DmKey(UserNameOf(2)), GroupKey("g")}
RestoreSealKeys == {KeyOf(1, n) : n \in 0..MaxInstalls}
RestorePayloads == {<<>>, <<<<UserNameOf(2), "a">>>>}
RestoreBlobs ==
    {encrypt_data_for_storage(p, k) : p \in RestorePayloads, k \in RestoreSealKeys}
Snapshots(t) ==
    {[friends |-> fr, groups |-> <<>>, message_history |-> mh, timestamp |-> t] :
        fr \in {<<>>, <<UserNameOf(2)>>},
        mh \in UNION {[D -> RestoreBlobs] : D \in SUBSET RestoreConversations}}

\* The vaults the installation may hold when a restore starts: nothing, or
\* the friend and two messages polled from that friend.
LocalHistories == {<<>>, <<<<UserNameOf(2), "a">>, <<UserNameOf(2), "a">>>>}

InitRestore ==
    \E h \in LocalHistories :
        LET fr == IF h = <<>> THEN <<>> ELSE <<UserNameOf(2)>>
            mh == IF h = <<>> THEN EmptyDict ELSE Put(EmptyDict, DmKey(UserNameOf(2)), h)
        IN  /\ now = 1
            /\ users = [c \in Clients |-> [username |-> UserNameOf(c),
                                           public_key |-> Pub(KeyOf(c, 0))]]
            /\ auth_tokens = {[user_id |-> c, token |-> c, created_at |-> 1,
                               expires_at |-> 1 + TokenTTL] : c \in Clients}
            /\ tokens_issued = Cardinality(Clients)
            /\ friends_tbl = <<>>
            /\ groups_tbl = <<>>
            /\ group_members = {}
            /\ messages = <<>>
            /\ user_backups = <<>>
            /\ event_loop = LoopIdle
            /\ symmetric_key = [c \in Clients |-> KeyOf(c, 0)]
            /\ private_key = [c \in Clients |-> KeyOf(c, 0)]
            /\ friend_public_keys = [c \in Clients |-> EmptyDict]
            /\ installs = [c \in Clients |-> 0]
            /\ key_files = [c \in Clients |-> KeysOnDisk(KeyOf(c, 0))]
            /\ auth_token = [c \in Clients |-> c]
            /\ friends = [c \in Clients |-> IF c \in Owners THEN fr ELSE <<>>]
            /\ groups = [c \in Clients |-> <<>>]
            /\ message_history = [c \in Clients |-> IF c \in Owners THEN mh ELSE EmptyDict]
            /\ last_sync_time = [c \in Clients |-> 0]
            /\ current_chat = [c \in Clients |-> NoChat]
            /\ relations_file = [c \in Clients |->
                   IF c \in Owners /\ h # <<>> THEN save_relations(fr, <<>>) ELSE NoFile]
            /\ history_files = [c \in Clients |-> IF c \in Owners THEN mh ELSE EmptyDict]
            /\ last_sync_file = [c \in Clients |-> NoFile]
            /\ last = Did("register", 2, TRUE, FALSE)
            /\ pushed = [c \in Clients |-> [some |-> FALSE]]

NextRestore ==
    \/ \E c \in Owners : \E backup_data \in Snapshots(now) :
          route_backup_user_data(auth_token[c], backup_data)
    \/ \E c \in Owners : \E t_file \in Later(now) : \E t_field \in Later(t_file) :
          login(c, t_file, t_field)
    \/ \E c \in Owners : \E t_file \in Later(now) : \E t_field \in Later(t_file) :
          restart(c, t_file, t_field)
    \/ \E c \in Owners, keep_keys \in BOOLEAN : fresh_install(c, keep_keys)

SpecRestore == InitRestore /\ [][NextRestore]_vars

\* The Keys directory between runs of the client: files get lost or
\* damaged, and every start of the client runs load_or_generate_keys.
KeyFileNames == {"symmetric", "private", "public"}

\* A file of UserData/Keys is deleted (NoFile) or overwritten with bytes
\* that are no key (BadFile) while the client is not running.
damage_key_file(c, name, f) ==
    /\ key_files[c][name].exists
    /\ key_files' = [key_files EXCEPT ![c][name] = f]
    /\ last' = [op |-> "damage_key_file", c |-> c, ok |-> TRUE, restored |-> FALSE]
    /\ UNCHANGED <<now, relay_vars, symmetric_key, private_key, friend_public_keys,
                   installs, vault_vars, sync_vars, auth_token, current_chat, pushed>>

\* EncryptionManager.__init__: load_or_generate_keys; when it raises, the
\* client does not start and only the files already written remain.
start_encryption_manager(c) ==
    LET r == load_or_generate_keys(key_files[c], KeyOf(c, installs[c] + 1))
    IN  /\ r.generated => installs[c] < MaxInstalls
        /\ key_files' = [key_files EXCEPT ![c] = r.dir]
        /\ installs' = [installs EXCEPT ![c] = IF r.generated THEN @ + 1 ELSE @]
        /\ IF r.raised
           THEN UNCHANGED <<symmetric_key, private_key>>
           ELSE /\ symmetric_key' = [symmetric_key EXCEPT ![c] = r.symmetric_key]
                /\ private_key' = [private_key EXCEPT ![c] = r.private_key]
        /\ last' = [op |-> "load_or_generate_keys", c |-> c, ok |-> ~r.raised,
                    restored |-> FALSE]
        /\ UNCHANGED <<now, relay_vars, friend_public_keys, vault_vars, sync_vars,
                       auth_token, current_chat, pushed>>

NextKeys ==
    \/ \E c \in Clients, name \in KeyFileNames, f \in {NoFile, BadFile} :
          damage_key_file(c, name, f)
    \/ \E c \in Clients : start_encryption_manager(c)

SpecKeys == Init /\ [][NextKeys]_vars

\* ------------------------------------------- the relay's event loop
\* uvicorn serves server:app from one event loop.  Every route is a
\* coroutine (async def) that calls the Database methods directly, so a
\* request that has started runs every statement up to its next await
\* before any other request runs: event_loop.running is the request that
\* holds the loop, 0 when the loop is free.  The only await inside a route
\* is backup_user_data's `await request.json()`.
LoopRoutes == {"send", "receive", "backup", "restore"}
LoopSnapshots ==
    {[friends |-> fr, groups |-> <<>>, message_history |-> EmptyDict, timestamp |-> 1] :
        fr \in {<<>>, <<UserNameOf(2)>>}}

\* A handler run in a worker thread: it can be overtaken after any statement.
SuspendsAnywhere(route, pc) == TRUE

\* Whether a request that has reached pc gives the loop back: at its await,
\* and when it has returned.
Suspends(route, pc) == pc = "done" \/ (route = "backup" /\ pc = "body")

LoopDid == [op |-> "event_loop", c |-> 0, ok |-> TRUE, restored |-> FALSE]

\* Request r moves on to pc with the fields it has gained.
Advance(r, call, pc) ==
    event_loop' =
        [running |-> IF Suspends(call.route, pc) THEN 0 ELSE r,
         calls |-> [event_loop.calls EXCEPT ![r] = [call EXCEPT !.pc = pc]]]

\* Whether the loop lets request r run its next statement.
CanRun(r) == event_loop.running \in {0, r}

\* A request of user_id arrives; had_backup notes whether the relay held a
\* snapshot for the user at that moment.
arrive(r, route, user_id, backup_data) ==
    /\ event_loop.calls[r] = NoCall
    /\ event_loop' = [event_loop EXCEPT !.calls[r] =
           [pc |-> "arrived", route |-> route, user_id |-> user_id,
            backup_data |-> backup_data, returned |-> <<>>, message_id |-> 0,
            had_backup |-> get_user_backup(user_id) # {},
            response |-> [success |-> FALSE]]]
    /\ last' = LoopDid
    /\ UNCHANGED <<now, users, auth_tokens, tokens_issued, friends_tbl, groups_tbl,
                   group_members, messages, user_backups, client_vars>>

\* send_message: get_user_by_id, then save_message (INSERT, commit,
\* lastrowid), for a direct message to the other account.
send_get_user(r) ==
    LET call == event_loop.calls[r]
    IN  /\ call.pc = "arrived" /\ call.route = "send" /\ CanRun(r)
        /\ Advance(r, call, "checked")
        /\ last' = LoopDid
        /\ UNCHANGED <<now, users, auth_tokens, tokens_issued, friends_tbl, groups_tbl,
                       group_members, messages, user_backups, client_vars>>

send_insert(r) ==
    LET call == event_loop.calls[r]
        recipient_id == CHOOSE u \in DOMAIN users : u # call.user_id
    IN  /\ call.pc = "checked" /\ CanRun(r)
        /\ messages' = save_message_row(call.user_id, recipient_id, RelayEnvelope.key,
                                        RelayEnvelope.message, FALSE)
        /\ Advance(r, [call EXCEPT !.message_id = Len(messages) + 1], "done")
        /\ last' = LoopDid
        /\ UNCHANGED <<now, users, auth_tokens, tokens_issued, friends_tbl, groups_tbl,
                       group_members, user_backups, client_vars>>

\* receive_messages: get_messages' SELECT, then its UPDATE and commit.
receive_select(r) ==
    LET call == event_loop.calls[r]
    IN  /\ call.pc = "arrived" /\ call.route = "receive" /\ CanRun(r)
        /\ \E ids \in get_messages(call.user_id, 0) :
              Advance(r, [call EXCEPT !.returned = ids], "selected")
        /\ last' = LoopDid
        /\ UNCHANGED <<now, users, auth_tokens, tokens_issued, friends_tbl, groups_tbl,
                       group_members, messages, user_backups, client_vars>>

receive_update(r) ==
    LET call == event_loop.calls[r]
    IN  /\ call.pc = "selected" /\ CanRun(r)
        /\ messages' = MarkDelivered(Range(call.returned))
        /\ Advance(r, call, "done")
        /\ last' = LoopDid
        /\ UNCHANGED <<now, users, auth_tokens, tokens_issued, friends_tbl, groups_tbl,
                       group_members, user_backups, client_vars>>

\* backup_user_data: await request.json(), then save_user_backup's DELETE,
\* and its INSERT and commit.
backup_await_body(r) ==
    LET call == event_loop.calls[r]
    IN  /\ call.pc = "arrived" /\ call.route = "backup" /\ CanRun(r)
        /\ Advance(r, call, "body")
        /\ last' = LoopDid
        /\ UNCHANGED <<now, users, auth_tokens, tokens_issued, friends_tbl, groups_tbl,
                       group_members, messages, user_backups, client_vars>>

backup_delete(r) ==
    LET call == event_loop.calls[r]
    IN  /\ call.pc = "body" /\ CanRun(r)
        /\ user_backups' = delete_user_backups(user_backups, call.user_id)
        /\ Advance(r, call, "deleted")
        /\ last' = LoopDid
        /\ UNCHANGED <<now, users, auth_tokens, tokens_issued, friends_tbl, groups_tbl,
                       group_members, messages, client_vars>>

backup_insert(r) ==
    LET call == event_loop.calls[r]
    IN  /\ call.pc = "deleted" /\ CanRun(r)
        /\ user_backups' = insert_user_backup(user_backups, call.user_id,
                                              json_dumps(call.backup_data), now)
        /\ Advance(r, call, "done")
        /\ last' = LoopDid
        /\ UNCHANGED <<now, users, auth_tokens, tokens_issued, friends_tbl, groups_tbl,
                       group_members, messages, client_vars>>

\* restore_user_data: get_user_backup's SELECT and the response built on it.
restore_select(r) ==
    LET call == event_loop.calls[r]
    IN  /\ call.pc = "arrived" /\ call.route = "restore" /\ CanRun(r)
        /\ \E resp \in server_restore_user_data(call.user_id) :
              Advance(r, [call EXCEPT !.response = resp], "done")
        /\ last' = LoopDid
        /\ UNCHANGED <<now, users, auth_tokens, tokens_issued, friends_tbl, groups_tbl,
                       group_members, messages, user_backups, client_vars>>

NextLoop ==
    \/ \E r \in Calls, route \in LoopRoutes, user_id \in DOMAIN users,
          backup_data \in LoopSnapshots :
          /\ route # "backup" => backup_data = CHOOSE d \in LoopSnapshots : TRUE
          /\ arrive(r, route, user_id, backup_data)
    \/ \E r \in Calls : send_get_user(r)
    \/ \E r \in Calls : send_insert(r)
    \/ \E r \in Calls : receive_select(r)
    \/ \E r \in Calls : receive_update(r)
    \/ \E r \in Calls : backup_await_body(r)
    \/ \E r \in Calls : backup_delete(r)
    \/ \E r \in Calls : backup_insert(r)
    \/ \E r \in Calls : restore_select(r)

SpecLoop == InitRegistered /\ [][NextLoop]_vars

\* ------------------------------------------------------------ properties
\* The relay account of client c, 0 when it has none.
AccountOf(c) == get_user_by_username(UserNameOf(c))

\* The snapshot the relay holds for client c's account, as the client
\* reads it from GET users/restore.
HasSnapshot(c) == get_user_backup(AccountOf(c)) # {}
SnapshotOf(c) ==
    json_loads((CHOOSE r \in get_user_backup(AccountOf(c)) : TRUE).backup_data)

\* Whether client c's symmetric key opens every conversation of the
\* snapshot held for it.
OpensAll(c) ==
    Restorable(SnapshotOf(c), symmetric_key[c]) = DOMAIN SnapshotOf(c).message_history

\* Whether client c's vault equals what it held at its last stored push.
EqualsPushed(c) ==
    /\ pushed[c].some
    /\ friends[c] = pushed[c].friends
    /\ groups[c] = pushed[c].groups
    /\ message_history[c] = pushed[c].message_history

\* The last handler was a restore on client c that the relay answered with
\* a snapshot.
Restored(c) == last.c = c /\ last.restored

\* What the relay can read of an uploaded snapshot without any client key:
\* everything but the payload of the sealed conversation lists.
RelayView(backup_data) ==
    [friends |-> backup_data.friends,
     groups |-> backup_data.groups,
     conversations |-> DOMAIN backup_data.message_history,
     timestamp |-> backup_data.timestamp]

\* C1: every direct message stored for a user with a timestamp at or below
\* the user's last_sync_time has been pulled by the user's client (the
\* relay has handed it out), so the watermark never passes an unpulled
\* message.
C1_WatermarkBehindPulled ==
    \A c \in Owners : \A i \in DOMAIN messages :
        (/\ messages[i].recipient_id = AccountOf(c)
         /\ ~messages[i].is_group
         /\ messages[i].timestamp <= last_sync_time[c])
        => messages[i].delivered

\* The rows the receive query is to return, written from the claim.
ExpectedDirect(user_id, since) ==
    {i \in DOMAIN messages : /\ messages[i].recipient_id = user_id
                             /\ ~messages[i].is_group
                             /\ messages[i].timestamp > since}

\* C2: for every user and every since, the direct receive query returns
\* exactly the non-group rows addressed to the user with a timestamp
\* strictly above since, each once, in ascending timestamp order, whatever
\* their delivered flags are.
C2_ReceiveExact ==
    \A user_id \in DOMAIN users, since \in 0..MaxTime :
        /\ get_messages(user_id, since) # {}
        /\ \A s \in get_messages(user_id, since) :
              /\ Range(s) = ExpectedDirect(user_id, since)
              /\ Len(s) = Cardinality(ExpectedDirect(user_id, since))
              /\ \A i, j \in DOMAIN s :
                    i < j => messages[s[i]].timestamp <= messages[s[j]].timestamp

\* C2's case: a poll has run, a row it marked delivered is still above the
\* sync time and so is returned again, and a row whose timestamp equals the
\* sync time is left out.
C2_Witness ==
    /\ last.op = "poll_for_messages" /\ last.ok
    /\ last_sync_time[last.c] > 0
    /\ \E i \in ExpectedDirect(AccountOf(last.c), last_sync_time[last.c]) :
          messages[i].delivered
    /\ \E j \in DOMAIN messages :
          /\ messages[j].recipient_id = AccountOf(last.c)
          /\ ~messages[j].is_group
          /\ messages[j].timestamp = last_sync_time[last.c]

\* C3: a poll leaves last_sync_time unchanged in memory and on disk, and
\* every step that changes either is a backup or a restore.
C3_PollKeepsSyncTime ==
    [][/\ last'.op = "poll_for_messages" => UNCHANGED sync_vars
       /\ sync_vars' # sync_vars =>
             last'.op \in {"backup_user_data", "login", "restart"}]_vars

\* C3's case: the last poll ran with a sync time above 0 and fetched a
\* direct and a group message, both of which it appended.
C3_Witness ==
    /\ last.op = "poll_for_messages" /\ last.ok
    /\ last_sync_time[last.c] > 0
    /\ last_sync_file[last.c].exists
    /\ \E i \in DirectMatching(AccountOf(last.c), last_sync_time[last.c]) :
          DmKey(UserNameOf(2)) \in DOMAIN message_history[last.c]
    /\ \E j \in GroupMatching(AccountOf(last.c), last_sync_time[last.c]) :
          GroupKey("g") \in DOMAIN message_history[last.c]

\* C4: after a successful backup, last_sync_time in memory and on disk
\* equals the timestamp inside the snapshot that was uploaded.
C4_PushSetsSnapshotTime ==
    \A c \in Owners :
        (last.op = "backup_user_data" /\ last.c = c /\ last.ok)
        => /\ last_sync_time[c] = SnapshotOf(c).timestamp
           /\ last_sync_file[c] = [exists |-> TRUE, value |-> SnapshotOf(c).timestamp]

\* C5: after a successful restore, last_sync_time in memory and on disk
\* equals the restored snapshot's timestamp.
C5_RestoreSetsSnapshotTime ==
    \A c \in Owners :
        Restored(c)
        => /\ last_sync_time[c] = SnapshotOf(c).timestamp
           /\ last_sync_file[c] = [exists |-> TRUE, value |-> SnapshotOf(c).timestamp]

\* C6: after a successful restore of a snapshot the local key opens, the
\* friends list, the groups list and the message history equal the
\* snapshot's contents, so no local conversation absent from the snapshot
\* survives.
C6_RestoreReplaces ==
    \A c \in Owners : (Restored(c) /\ OpensAll(c)) => EqualsPushed(c)

\* A vault with no friends, groups or history, in memory and on disk.
FreshVault(c) ==
    /\ friends[c] = <<>> /\ groups[c] = <<>>
    /\ message_history[c] = EmptyDict
    /\ history_files[c] = EmptyDict
    /\ load_relations(relations_file[c]) = [friends |-> <<>>, groups |-> <<>>]

\* C7: a restore that runs on a fresh vault holding the pusher's symmetric
\* key leaves the friends list, the groups list and every conversation as
\* the pushing vault held them at the push.
C7_PushRestoreRoundTrip ==
    [][\A c \in Owners :
          (/\ FreshVault(c) /\ HasSnapshot(c) /\ OpensAll(c)
           /\ last'.c = c /\ last'.restored)
          => /\ pushed[c].some
             /\ friends'[c] = pushed[c].friends
             /\ groups'[c] = pushed[c].groups
             /\ message_history'[c] = pushed[c].message_history]_vars

\* C7's case: a vault that had a friend and a conversation was pushed, its
\* files were removed with the key material kept, and the login on the
\* fresh vault restored the snapshot.
C7_Witness ==
    /\ last.op = "login" /\ last.restored
    /\ installs[last.c] = 0
    /\ friends[last.c] # <<>>
    /\ \E k \in DOMAIN message_history[last.c] : message_history[last.c][k] # <<>>

\* C8: after a re-install the login's restore recovers the conversation
\* history and the friends and groups of the last pushed snapshot.
C8_ReinstallRecovers ==
    \A c \in Owners :
        (last.op = "login" /\ Restored(c)) => EqualsPushed(c)

\* C9: the relay holds at most one snapshot per user, the one of the most
\* recent push it stored, and a restore returns exactly that one.
C9_OneSnapshot ==
    /\ \A i, j \in DOMAIN user_backups :
          user_backups[i].user_id = user_backups[j].user_id => i = j
    /\ \A c \in Owners :
          /\ pushed[c].some <=> HasSnapshot(c)
          /\ pushed[c].some =>
                /\ Cardinality(server_restore_user_data(AccountOf(c))) = 1
                /\ \A resp \in server_restore_user_data(AccountOf(c)) :
                      /\ resp.success
                      /\ resp.data.friends = pushed[c].friends
                      /\ resp.data.groups = pushed[c].groups
                      /\ DOMAIN resp.data.message_history = DOMAIN pushed[c].message_history
                      /\ \A k \in DOMAIN resp.data.message_history :
                            resp.data.message_history[k].payload =
                               pushed[c].message_history[k]

\* C9's case: the relay has stored a push, holding a message, after the push
\* or restore that set the sync time, so it has replaced an earlier snapshot.
C9_Witness ==
    /\ last.op = "backup_user_data"
    /\ last_sync_time[last.c] > 0
    /\ \E r \in get_user_backup(AccountOf(last.c)) :
          r.timestamp > last_sync_time[last.c]
    /\ \E k \in DOMAIN pushed[last.c].message_history :
          pushed[last.c].message_history[k] # <<>>

\* C10: the relay reads nothing of a stored snapshot but its timestamp: what
\* it can read equals what it could read of the snapshot a client without
\* friends, groups and conversations uploads at the same time.
C10_SnapshotOpaque ==
    \A i \in DOMAIN user_backups :
        LET data == json_loads(user_backups[i].backup_data)
        IN  RelayView(data)
               = RelayView([friends |-> <<>>, groups |-> <<>>,
                            message_history |-> EmptyDict,
                            timestamp |-> data.timestamp])

\* The private keys the clients can hold.
ClientKeys == {KeyOf(c, n) : c \in Clients, n \in 0..MaxInstalls}

\* C11: every message row the relay stores, direct or group, holds a
\* one-time key wrapped for a client's public key and a content encrypted
\* under that one-time key, so the relay, which holds no private key, reads
\* no plaintext.
C11_NoPlaintextAtRelay ==
    \A i \in DOMAIN messages :
        /\ \E sk \in ClientKeys : messages[i].encrypted_key.wrapped_for = Pub(sk)
        /\ messages[i].encrypted_content.under = messages[i].encrypted_key.message_key

\* C11's case: the relay stores a direct message sent from the chat window
\* and a group message.
C11_Witness ==
    /\ \E i \in DOMAIN messages :
          ~messages[i].is_group /\ messages[i].sender_id = AccountOf(1)
    /\ \E j \in DOMAIN messages : messages[j].is_group

\* Whether a snapshot body consists of the two lists, the sealed
\* conversations and the timestamp, and nothing else.
SnapshotShape(data) ==
    /\ DOMAIN data = {"friends", "groups", "message_history", "timestamp"}
    /\ \A k \in DOMAIN data.message_history :
          DOMAIN data.message_history[k] = {"sealed_with", "payload"}

\* C12: no request body and nothing the relay stores carries a client's
\* private key or symmetric key: register posts the public key, login the
\* username, a send the wrapped one-time key and the ciphertext, a backup
\* the two lists, the sealed conversations and a timestamp.
C12_KeysStayLocal ==
    /\ \A c \in Clients :
          /\ DOMAIN register_request(c) = {"username", "public_key"}
          /\ register_request(c).public_key \notin ClientKeys
          /\ DOMAIN login_request(c) = {"username"}
          /\ SnapshotShape(prepare_backup_data(c, now))
    /\ \A i \in DOMAIN users : users[i].public_key \notin ClientKeys
    /\ \A i \in DOMAIN messages :
          /\ DOMAIN messages[i].encrypted_key = {"wrapped_for", "message_key"}
          /\ messages[i].encrypted_key.wrapped_for \notin ClientKeys
          /\ messages[i].encrypted_key.message_key \in MsgKeys
    /\ \A i \in DOMAIN user_backups :
          SnapshotShape(json_loads(user_backups[i].backup_data))

\* C12's case: a client that has regenerated its keys has stored a snapshot
\* with a sealed conversation, and the relay holds a message.
C12_Witness ==
    /\ installs[1] > 0
    /\ \E i \in DOMAIN user_backups :
          LET data == json_loads(user_backups[i].backup_data)
          IN  \E k \in DOMAIN data.message_history :
                 data.message_history[k].sealed_with = symmetric_key[1]
    /\ messages # <<>>

\* The routes behind Depends(get_current_user), by the name last records.
AuthenticatedRoutes ==
    {"logout", "get_public_key", "search_users", "add_friend", "send_message",
     "receive_messages", "receive_group_messages", "create_group",
     "add_group_member", "get_group_members", "backup_user_data",
     "restore_user_data"}

\* C13: a recorded token created at time c has expires_at = c + 604800, and
\* an authenticated call presenting it is accepted while now <= expires_at
\* and answered 401 once now > expires_at.  The relay answers 401 already
\* at now = expires_at.
C13_TokenLifetime ==
    \A r \in auth_tokens :
        /\ r.expires_at = r.created_at + 604800
        /\ (last.op \in AuthenticatedRoutes \ {"logout"} /\ last.token = r.token)
              => (last.status # 401 <=> now <= r.expires_at)
\* Token t has no row in auth_tokens.
NoRow(t) == \A r \in auth_tokens : r.token # t

\* C14: a successful logout presenting token t removes t's row; a token
\* that was issued and has no row stays without one through every later
\* step, further logins of the same user included, and every
\* authenticated call presenting it is answered 401.
C14_LogoutIsFinal ==
    [][/\ (last'.op = "logout" /\ last'.status = 200)
              => /\ last'.token \in 1..tokens_issued
                 /\ \A r \in auth_tokens' : r.token # last'.token
       /\ \A t \in 1..tokens_issued :
              NoRow(t) => /\ NoRow(t)'
                          /\ validate_auth_token(t)' = 0
                          /\ (last'.op \in AuthenticatedRoutes /\ last'.token = t)
                                => last'.status = 401]_vars

\* A logged-out token is refused while a later login's token of the same
\* user is valid.
C14_Witness ==
    /\ last.op \in AuthenticatedRoutes
    /\ last.token \in 1..tokens_issued
    /\ NoRow(last.token)
    /\ last.status = 401
    /\ \E r \in auth_tokens : /\ r.token > last.token
                              /\ r.user_id = 1
                              /\ validate_auth_token(r.token) = 1
C16_MessageLifecycle ==
    [][/\ Len(messages') >= Len(messages)
       /\ \A i \in DOMAIN messages :
             /\ [messages'[i] EXCEPT !.delivered = messages[i].delivered] = messages[i]
             /\ messages[i].delivered => messages'[i].delivered
       /\ (last'.op = "send_message" /\ last'.status = 200)
             <=> Len(messages') > Len(messages)
       /\ Len(messages') > Len(messages)
             => /\ Len(messages') = Len(messages) + 1
                /\ ~messages'[Len(messages')].delivered]_vars

\* A delivered row has come through another user's receive that returned
\* a different row.
C16_Witness ==
    /\ last.op = "receive_messages"
    /\ last.returned # <<>>
    /\ \E i \in DOMAIN messages : messages[i].delivered /\ i \notin Range(last.returned)
\* C17: every row a successful receive call hands to its caller, through
\* the direct or the group route, is marked delivered by that call.  The
\* group route marks nothing.
C17_DeliveredOnRetrieval ==
    (last.op \in {"receive_messages", "receive_group_messages"} /\ last.status = 200)
        => \A i \in Range(last.returned) : messages[i].delivered
\* User u is a member of group g.
IsMember(g, u) == [group_id |-> g, user_id |-> u] \in group_members

\* C18: the group route returns to its caller only group rows whose target
\* group the caller is a member of; the direct route returns only
\* non-group rows addressed to the caller, also when a group carries the
\* caller's user id; and get_group_members answers a caller who is not a
\* member of the group with a refusal.
C18_GroupDataForMembersOnly ==
    /\ last.op = "receive_group_messages"
          => \A i \in Range(last.returned) :
                /\ messages[i].is_group
                /\ IsMember(messages[i].recipient_id, last.user)
    /\ last.op = "receive_messages"
          => \A i \in Range(last.returned) :
                /\ ~messages[i].is_group
                /\ messages[i].recipient_id = last.user
    /\ (last.op = "get_group_members" /\ ~IsMember(last.group_id, last.user))
          => last.status \in {401, 403}

\* A user whose id equals a group's id, and who is not in that group, asks
\* for messages while the relay holds a message for the group.
C18_Witness ==
    /\ last.op \in {"receive_group_messages", "receive_messages"}
    /\ last.status = 200
    /\ last.user \in DOMAIN groups_tbl
    /\ ~IsMember(last.user, last.user)
    /\ \E i \in DOMAIN messages : /\ messages[i].is_group
                                  /\ messages[i].recipient_id = last.user
                                  /\ messages[i].timestamp > 1
\* C19: an add_group_member call by a caller who is not a member of the
\* group is refused and leaves group_members as it was; and every
\* membership row that appears is either a row of a group being created,
\* for its creator or for a user named in the creation's members list, or
\* the row of the user named in an add call made by a member of that group.
C19_OnlyMembersAddMembers ==
    [][/\ (last'.op = "add_group_member" /\ ~IsMember(last'.group_id, last'.user))
             => /\ last'.status \in {401, 403}
                /\ group_members' = group_members
       /\ \A row \in group_members' \ group_members :
             \/ /\ last'.op = "create_group"
                /\ last'.status = 200
                /\ row.group_id = last'.group_id
                /\ row.group_id \notin DOMAIN groups_tbl
                /\ row.group_id \in DOMAIN groups_tbl'
                /\ \/ row.user_id = groups_tbl'[row.group_id].created_by
                   \/ \E m \in last'.members : get_user_by_username(m) = row.user_id
             \/ /\ last'.op = "add_group_member"
                /\ last'.status = 200
                /\ IsMember(last'.group_id, last'.user)
                /\ row.group_id = last'.group_id
                /\ \E m \in last'.members : get_user_by_username(m) = row.user_id]_vars

\* A registered user outside an existing group tries to add someone to it
\* and is refused.
C19_Witness ==
    /\ last.op = "add_group_member"
    /\ last.status = 403
    /\ last.user \in DOMAIN users
    /\ last.group_id \in DOMAIN groups_tbl
    /\ \E u \in DOMAIN users : IsMember(last.group_id, u)
\* C20: in every state, get_group_members of each group includes the user
\* who created it, whatever members list the creation was given.
C20_CreatorIsMember ==
    \A g \in DOMAIN groups_tbl :
        /\ groups_tbl[g].created_by \in get_group_members_rows(g)
        /\ IsMember(g, groups_tbl[g].created_by)

\* A group has just been created with a members list naming its creator
\* and a username nobody has.
C20_Witness ==
    /\ last.op = "create_group"
    /\ last.status = 200
    /\ last.group_id \in DOMAIN groups_tbl
    /\ groups_tbl[last.group_id].created_by = last.user
    /\ users[last.user].username \in last.members
    /\ \E m \in last.members : get_user_by_username(m) = 0
\* The rows of the friends table from user u to user v.
Edges(u, v) ==
    {i \in DOMAIN friends_tbl : friends_tbl[i].user_id = u /\ friends_tbl[i].friend_id = v}

\* In table tbl user a lists user b as a friend: an accepted row a -> b.
Lists(tbl, a, b) ==
    \E i \in DOMAIN tbl :
        tbl[i] = [user_id |-> a, friend_id |-> b, status |-> "accepted"]

\* C21: when the addressee v of a pending request u -> v accepts it, the
\* call succeeds, the request's row becomes accepted, the row (v, u,
\* accepted) is created by that same call, and afterwards get_friends of
\* each of the two lists the other.  The accept raises when a row v -> u is
\* already there.
C21_AcceptCreatesMirror ==
    [][(/\ last'.op = "respond_to_friend_request"
        /\ last'.accept
        /\ last'.request_id \in DOMAIN friends_tbl
        /\ friends_tbl[last'.request_id].status = "pending"
        /\ friends_tbl[last'.request_id].friend_id = last'.user)
          => LET u == friends_tbl[last'.request_id].user_id
                 v == friends_tbl[last'.request_id].friend_id
             IN  /\ last'.status = 200
                 /\ friends_tbl'[last'.request_id].status = "accepted"
                 /\ Edges(v, u) = {}
                 /\ Lists(friends_tbl', v, u)
                 /\ Lists(friends_tbl', u, v)]_vars
\* Some row between u and v, in either direction, is pending or accepted.
Linked(u, v) ==
    \E i \in Edges(u, v) \cup Edges(v, u) : friends_tbl[i].status \in {"pending", "accepted"}

\* C22: while a row between the caller and the named user is pending or
\* accepted, in either direction, a friends/add call fails and leaves the
\* friends table as it was; and two pending rows between the same two
\* users never coexist.  With a rejected row next to an accepted one the
\* request may take the rejected row and succeed.
C22_NoDuplicateRequest ==
    [][/\ (/\ last'.op = "add_friend"
           /\ last'.user # 0
           /\ \E m \in last'.members :
                 /\ get_user_by_username(m) # 0
                 /\ Linked(last'.user, get_user_by_username(m)))
             => /\ last'.status # 200
                /\ friends_tbl' = friends_tbl
       /\ \A i, j \in DOMAIN friends_tbl' :
             (/\ i # j
              /\ friends_tbl'[i].status = "pending"
              /\ friends_tbl'[j].status = "pending")
                => {friends_tbl'[i].user_id, friends_tbl'[i].friend_id}
                      # {friends_tbl'[j].user_id, friends_tbl'[j].friend_id}]_vars
\* C23: a friends/add call toward a user with whom the caller has a
\* rejected row, in either direction, succeeds, turns one such rejected
\* row to pending and adds no row.  The request fails when the row it
\* reads is an accepted or pending one lying next to the rejected one.
C23_RejectedBecomesPending ==
    [][(/\ last'.op = "add_friend"
        /\ last'.user # 0
        /\ \E m \in last'.members :
              /\ get_user_by_username(m) # 0
              /\ \E i \in Edges(last'.user, get_user_by_username(m))
                         \cup Edges(get_user_by_username(m), last'.user) :
                    friends_tbl[i].status = "rejected")
          => /\ last'.status = 200
             /\ \E i \in DOMAIN friends_tbl :
                   /\ friends_tbl[i].status = "rejected"
                   /\ friends_tbl' = [friends_tbl EXCEPT ![i].status = "pending"]]_vars
\* C24: the friends table never holds two rows for one ordered pair
\* (user_id, friend_id), and no request, accept or reject, answers to
\* already answered requests included, runs into an INSERT of a second row
\* for a pair (the call ending in an error out of the database).  A second
\* accept of a request does.
C24_OneEdgePerOrderedPair ==
    /\ \A i, j \in DOMAIN friends_tbl :
          (/\ friends_tbl[i].user_id = friends_tbl[j].user_id
           /\ friends_tbl[i].friend_id = friends_tbl[j].friend_id) => i = j
    /\ last.op \in {"add_friend", "respond_to_friend_request"} => last.status # 500
\* C25: a row's status changes only from pending to accepted, from pending
\* to rejected, and, by a new request, from rejected to pending; an answer
\* to a row that is not pending changes nothing.  An answer rewrites the
\* status of an accepted or rejected row as well.
C25_EdgeLifecycle ==
    [][\A i \in DOMAIN friends_tbl :
          /\ i \in DOMAIN friends_tbl'
          /\ \/ friends_tbl'[i].status = friends_tbl[i].status
             \/ /\ friends_tbl[i].status = "pending"
                /\ friends_tbl'[i].status \in {"accepted", "rejected"}
                /\ last'.op = "respond_to_friend_request"
             \/ /\ friends_tbl[i].status = "rejected"
                /\ friends_tbl'[i].status = "pending"
                /\ last'.op = "add_friend"]_vars
\* C26: the relay stores a message row only for a group send whose
\* recipient id is the id of an existing group, or a direct send whose
\* recipient id is the id of an existing user; any other send is answered
\* with a failure and stores nothing.  A group send to an id that is no
\* group is stored and answered 200.
C26_SendToExistingTarget ==
    [][/\ Len(messages') > Len(messages)
             => LET m == messages'[Len(messages')]
                IN  IF m.is_group THEN m.recipient_id \in DOMAIN groups_tbl
                    ELSE m.recipient_id \in DOMAIN users
       /\ (last'.op = "send_message" /\ last'.status # 200) => messages' = messages]_vars
\* Client c's key store holds an RSA public key for the member.
HasUsableKey(c, member) ==
    /\ member \in DOMAIN friend_public_keys[c]
    /\ \E sk \in CryptoKeys : friend_public_keys[c][member] = Pub(sk)

C28_OneEnvelopePerMember ==
    (/\ last.op = "encrypt_group_message"
     /\ \A i \in DOMAIN last.recipients : HasUsableKey(last.c, last.recipients[i]))
        => /\ last.result.ok
           /\ DOMAIN last.result.value = Range(last.recipients)
           /\ Cardinality(DOMAIN last.result.value) = Cardinality(Range(last.recipients))
           /\ \A x \in Range(last.recipients) : \A sk \in CryptoKeys :
                 IF Pub(sk) = friend_public_keys[last.c][x]
                 THEN decrypt_message(last.result.value[x], sk) =
                          [ok |-> TRUE, value |-> last.message]
                 ELSE decrypt_message(last.result.value[x], sk) = [ok |-> FALSE]

\* Two members holding different key pairs were encrypted for.
C28_Witness ==
    /\ last.op = "encrypt_group_message"
    /\ last.result.ok
    /\ Len(last.recipients) = 2
    /\ last.recipients[1] # last.recipients[2]
    /\ HasUsableKey(last.c, last.recipients[1])
    /\ HasUsableKey(last.c, last.recipients[2])
    /\ friend_public_keys[last.c][last.recipients[1]]
          # friend_public_keys[last.c][last.recipients[2]]
\* C28 as stated: whenever every listed member has some public key in the
\* store, encrypt_group_message returns one envelope per member.  A stored
\* key that is not an RSA key makes the encryption fail.
C28_AllCachedSuffices ==
    (/\ last.op = "encrypt_group_message"
     /\ \A i \in DOMAIN last.recipients :
           last.recipients[i] \in DOMAIN friend_public_keys[last.c])
        => /\ last.result.ok
           /\ DOMAIN last.result.value = Range(last.recipients)
C30_FailedConversationSkippedAlone ==
    [][\A c \in Owners :
          (last'.op \in {"login", "restart"} /\ last'.c = c /\ last'.restored) =>
             \A k \in DOMAIN SnapshotOf(c).message_history :
                LET blob == SnapshotOf(c).message_history[k]
                IN  IF blob.sealed_with = symmetric_key[c]
                    THEN /\ k \in DOMAIN message_history'[c]
                         /\ message_history'[c][k] = blob.payload
                         /\ k \in DOMAIN history_files'[c]
                         /\ history_files'[c][k] = blob.payload
                    ELSE /\ k \in DOMAIN message_history'[c] =>
                               /\ k \in DOMAIN history_files[c]
                               /\ message_history'[c][k] = history_files[c][k]
                         /\ k \in DOMAIN history_files'[c] =>
                               history_files'[c][k] =
                                   IF k \in DOMAIN history_files[c]
                                   THEN history_files[c][k] ELSE <<>>]_vars

\* A restore has just run on a snapshot with one conversation that unsealed
\* and is now held with its snapshot contents, and another that did not
\* unseal and is still held as the installation had it.
C30_Witness ==
    /\ last.op \in {"login", "restart"} /\ last.c = 1 /\ last.restored
    /\ HasSnapshot(1)
    /\ \E k1, k2 \in DOMAIN SnapshotOf(1).message_history :
          /\ SnapshotOf(1).message_history[k1].sealed_with = symmetric_key[1]
          /\ SnapshotOf(1).message_history[k1].payload # <<>>
          /\ k1 \in DOMAIN message_history[1]
          /\ message_history[1][k1] = SnapshotOf(1).message_history[k1].payload
          /\ SnapshotOf(1).message_history[k2].sealed_with # symmetric_key[1]
          /\ k2 \in DOMAIN message_history[1]
          /\ message_history[1][k2] \in LocalHistories \ {<<>>}

\* C31: once the keys exist, a later load_or_generate_keys loads exactly the
\* stored keys when the Keys directory is complete and readable, raises when
\* any key file is missing or unreadable, and never leaves another key in a
\* private.pem or symmetric.key that held a readable one.
C31_KeysNeverReplaced ==
    [][\A c \in Clients :
          (last'.op = "load_or_generate_keys" /\ last'.c = c) =>
             LET dir == key_files[c]
                 complete == \A name \in KeyFileNames : Readable(dir[name])
             IN  /\ complete =>
                       /\ last'.ok
                       /\ symmetric_key'[c] = dir.symmetric.value
                       /\ private_key'[c] = dir.private.value
                 /\ ~complete => ~last'.ok
                 /\ Readable(dir.private) => key_files'[c].private = dir.private
                 /\ Readable(dir.symmetric) => key_files'[c].symmetric = dir.symmetric]_vars

\* C32: a pull, a backup push and a restore never lower client c's
\* last_sync_time, and a push that fails leaves the watermark and its file
\* as they were.
C32_SyncTimeNeverDecreases ==
    [][\A c \in Owners :
          (/\ last'.c = c
           /\ \/ last'.op \in {"poll_for_messages", "backup_user_data", "login"}
              \/ last'.op = "restart" /\ last'.restored) =>
             /\ last_sync_time'[c] >= last_sync_time[c]
             /\ (last'.op = "backup_user_data" /\ ~last'.ok) =>
                   /\ last_sync_time'[c] = last_sync_time[c]
                   /\ last_sync_file'[c] = last_sync_file[c]]_vars

\* A push has just failed on a client whose watermark an earlier push or
\* restore had set, and a later clock reading would have raised it.
C32_Witness ==
    /\ last.op = "backup_user_data" /\ last.c = 1 /\ ~last.ok
    /\ last_sync_time[1] > 0
    /\ last_sync_time[1] < now

\* C33: the list a direct or a group receive returns is ordered by
\* (timestamp, id): ascending timestamps, and ascending message ids among
\* the records of one timestamp.
C33_TiesInCreationOrder ==
    (last.op \in {"receive_messages", "receive_group_messages"} /\ last.status = 200) =>
        \A i, j \in DOMAIN last.returned :
            i < j =>
               \/ messages[last.returned[i]].timestamp < messages[last.returned[j]].timestamp
               \/ /\ messages[last.returned[i]].timestamp = messages[last.returned[j]].timestamp
                  /\ last.returned[i] < last.returned[j]

\* Whether client c's private key opens relay row m.
Opens(c, m) ==
    /\ m.encrypted_key.wrapped_for = Pub(private_key[c])
    /\ m.encrypted_content.under = m.encrypted_key.message_key

\* The relay rows of client c's pull window that c can read: direct rows from
\* sender u, and rows of group g, with timestamp > last_sync_time, delivered
\* or not.
DirectWindow(c, u) ==
    {i \in DOMAIN messages :
        /\ ~messages[i].is_group
        /\ messages[i].recipient_id = AccountOf(c)
        /\ users[messages[i].sender_id].username = u
        /\ messages[i].timestamp > last_sync_time[c]
        /\ Opens(c, messages[i])}
GroupWindow(c, g) ==
    {i \in DOMAIN messages :
        /\ messages[i].is_group
        /\ messages[i].recipient_id \in DOMAIN groups_tbl
        /\ groups_tbl[messages[i].recipient_id].name = g
        /\ [group_id |-> messages[i].recipient_id, user_id |-> AccountOf(c)] \in group_members
        /\ messages[i].timestamp > last_sync_time[c]
        /\ Opens(c, messages[i])}

\* The number of entries client c holds for a conversation.
HistLen(c, k) == IF k \in DOMAIN message_history[c] THEN Len(message_history[c][k]) ELSE 0

\* C34: a pull leaves last_sync_time alone and appends one entry for every
\* readable row of its window, rows an earlier pull already appended
\* included; so a second pull with no push or restore in between appends the
\* same messages again.
C34_PullReappendsWindow ==
    [][\A c \in Owners :
          (last'.op = "poll_for_messages" /\ last'.c = c /\ last'.ok) =>
             /\ last_sync_time'[c] = last_sync_time[c]
             /\ \A u \in UserNames :
                   HistLen(c, DmKey(u))' =
                       HistLen(c, DmKey(u)) + Cardinality(DirectWindow(c, u))
             /\ \A g \in GroupNames :
                   HistLen(c, GroupKey(g))' =
                       HistLen(c, GroupKey(g)) + Cardinality(GroupWindow(c, g))]_vars

\* Two pulls in a row: the only relay message of a conversation is held
\* twice in its history.
C34_Witness ==
    /\ last.op = "poll_for_messages" /\ last.c = 1 /\ last.ok
    /\ \E u \in UserNames :
          /\ Cardinality({i \in DOMAIN messages :
                 /\ ~messages[i].is_group
                 /\ messages[i].recipient_id = AccountOf(1)
                 /\ users[messages[i].sender_id].username = u}) = 1
          /\ HistLen(1, DmKey(u)) = 2
          /\ message_history[1][DmKey(u)][1] = message_history[1][DmKey(u)][2]

\* C35: a pull appends nothing for a row it cannot decrypt and goes on with
\* the rows that remain, and it never fetches for decryption an unreadable
\* row that an earlier pull had already fetched (marked delivered).
C35_UnreadableNeverRetried ==
    [][\A c \in Owners :
          (last'.op = "poll_for_messages" /\ last'.c = c /\ last'.ok) =>
             /\ \A u \in UserNames :
                   HistLen(c, DmKey(u))' >=
                       HistLen(c, DmKey(u)) + Cardinality(DirectWindow(c, u))
             /\ \A i \in DirectMatching(AccountOf(c), last_sync_time[c]) :
                   ~Opens(c, messages[i]) => ~messages[i].delivered]_vars

\* The requests of a route that have returned.
Returned(route) ==
    {r \in Calls : event_loop.calls[r].pc = "done" /\ event_loop.calls[r].route = route}

\* C36: relay calls served together take effect one at a time.  Every send
\* that returned stored one record of its own, with an id no other send was
\* given; the records marked delivered are exactly those some receive
\* returned; a restore that arrived when the relay held a snapshot for the
\* user is answered with a snapshot, also while a push by the same user is
\* in flight; and whenever no request holds the loop, a user who pushed has
\* exactly one snapshot.
C36_CallsTakeEffectAtomically ==
    LET calls == event_loop.calls
    IN  /\ \A r \in Returned("send") :
              /\ calls[r].message_id \in DOMAIN messages
              /\ messages[calls[r].message_id].sender_id = calls[r].user_id
              /\ \A q \in Returned("send") \ {r} : calls[q].message_id # calls[r].message_id
        /\ Len(messages) = Cardinality(Returned("send"))
        /\ \A i \in DOMAIN messages :
              messages[i].delivered <=>
                 \E r \in Returned("receive") :
                    /\ i \in Range(calls[r].returned)
                    /\ messages[i].recipient_id = calls[r].user_id
        /\ \A r \in Returned("restore") :
              calls[r].had_backup =>
                 /\ calls[r].response.success
                 /\ calls[r].response.data \in LoopSnapshots
        /\ event_loop.running = 0 =>
              \A r \in Returned("backup") :
                 Cardinality({i \in DOMAIN user_backups :
                                 user_backups[i].user_id = calls[r].user_id}) = 1

\* A restore was answered with a snapshot while a push by the same user had
\* arrived and was waiting at its await, after an earlier push had stored
\* another snapshot.
C36_Witness ==
    \E r \in Returned("restore"), b \in Calls :
        /\ event_loop.calls[b].pc = "body"
        /\ event_loop.calls[b].user_id = event_loop.calls[r].user_id
        /\ event_loop.calls[r].had_backup
        /\ event_loop.calls[r].response.success
        /\ event_loop.calls[r].response.data # event_loop.calls[b].backup_data

\* C37: in every state of the friends table, the edge (u, v) is accepted
\* exactly when the edge (v, u) is there and accepted.
C37_AcceptedIsSymmetric ==
    \A i \in DOMAIN friends_tbl :
        friends_tbl[i].status = "accepted" =>
            \E j \in DOMAIN friends_tbl :
                /\ friends_tbl[j].user_id = friends_tbl[i].friend_id
                /\ friends_tbl[j].friend_id = friends_tbl[i].user_id
                /\ friends_tbl[j].status = "accepted"

\* Whether the table holds a pending request from user a addressed to user
\* b, the row get_friend_requests(b) lists and b alone may answer.
PendingFrom(tbl, a, b) ==
    \E i \in DOMAIN tbl :
        tbl[i].user_id = a /\ tbl[i].friend_id = b /\ tbl[i].status = "pending"

\* C38: after a friend request of u for v succeeded, the pending edge runs
\* from u to v: it is among v's incoming requests and not among u's, also
\* when the request revived a rejected edge.
C38_PendingEdgeIsDirected ==
    [][\A u, v \in DOMAIN users :
          (/\ last'.op = "add_friend"
           /\ last'.status = 200
           /\ last'.user = u
           /\ last'.members = {users[v].username}) =>
             /\ PendingFrom(friends_tbl', u, v)
             /\ ~PendingFrom(friends_tbl', v, u)]_vars

\* Whether sequence s starts with sequence p.
StartsWith(s, p) == Len(p) <= Len(s) /\ SubSeq(s, 1, Len(p)) = p

\* C39: a restart that restores nothing reloads, for every conversation
\* with a history file, exactly the persisted history; and a pull only adds
\* to the end of what a conversation's file held.
C39_HistorySurvivesRestart ==
    [][\A c \in Owners :
          /\ (last'.op = "restart" /\ last'.c = c /\ ~last'.restored) =>
                \A k \in DOMAIN history_files[c] :
                   /\ k \in DOMAIN message_history'[c]
                   /\ message_history'[c][k] = history_files[c][k]
          /\ (last'.op = "poll_for_messages" /\ last'.c = c) =>
                \A k \in DOMAIN history_files[c] :
                   /\ k \in DOMAIN history_files'[c]
                   /\ StartsWith(history_files'[c][k], history_files[c][k])]_vars

\* C40: a send from the chat window that the relay did not accept leaves the
\* sender's histories, in memory and on disk, as they were.
C40_FailedSendLeavesNoEntry ==
    [][\A c \in Owners :
          (last'.op = "send_message" /\ last'.c = c /\ ~last'.ok) =>
             /\ message_history'[c] = message_history[c]
             /\ history_files'[c] = history_files[c]]_vars

====
